---- MODULE Spec2Model ----
(***************************************************************************)
(* A model of the laitos command processor: CommandProcessor.Process with  *)
(* its command filters (PINAndShortcuts, TranslateSequences), its result   *)
(* filters (LintText, SayEmptyOutput, NotifyViaEmail), the PLT override,   *)
(* the feature lookup by trigger, the rate limiter and the emergency lock  *)
(* down flag.                                                              *)
(*                                                                         *)
(* Text is a sequence of bytes, each byte a one-character string.  The     *)
(* tokens "<C3>" and "<A9>" stand for the two bytes of a UTF-8 encoded     *)
(* non-ASCII rune and "<07>" for an ASCII control character.               *)
(***************************************************************************)
EXTENDS Integers, Sequences, FiniteSets, TLC

(***************************************************************************)
(* Bounds of the exploration.                                              *)
(***************************************************************************)
\* Process calls started within one window of the rate limiter.
MaxCalls == 3

\* Bytes of a text handed to a filter on its own.
MaxTextLen == 3

(***************************************************************************)
(* Bytes and strings.                                                      *)
(***************************************************************************)
Digits == {"0", "1", "2", "3", "4", "5", "6", "7", "8", "9"}

HighBytes == {"<C3>", "<A9>"}

ControlBytes == {"<07>"}

IsDigit(c) == c \in Digits

\* unicode.IsSpace restricted to the bytes of the model.
IsSpace(c) == c \in {" ", "\n", "\t", "\r"}

\* [[:graph:]]: a visible ASCII character.
IsGraph(c) == ~IsSpace(c) /\ c \notin HighBytes /\ c \notin ControlBytes

\* r < 128 && (unicode.IsPrint(r) || unicode.IsSpace(r)) for a one-byte rune.
IsPrintOrSpace7Bit(c) == c \notin HighBytes /\ c \notin ControlBytes

Drop(s, n) == SubSeq(s, n + 1, Len(s))

HasPrefix(s, p) == Len(s) >= Len(p) /\ SubSeq(s, 1, Len(p)) = p

RECURSIVE TrimLeft(_)
TrimLeft(s) ==
    IF s # <<>> /\ IsSpace(Head(s)) THEN TrimLeft(Tail(s)) ELSE s

RECURSIVE TrimRight(_)
TrimRight(s) ==
    IF s # <<>> /\ IsSpace(s[Len(s)]) THEN TrimRight(SubSeq(s, 1, Len(s) - 1)) ELSE s

\* strings.TrimSpace
TrimSpace(s) == TrimRight(TrimLeft(s))

\* Index of the first occurrence of sep at or after position i, 0 if none.
RECURSIVE IndexFrom(_, _, _)
IndexFrom(s, sep, i) ==
    IF i + Len(sep) - 1 > Len(s) THEN 0
    ELSE IF SubSeq(s, i, i + Len(sep) - 1) = sep THEN i
    ELSE IndexFrom(s, sep, i + 1)

\* strings.Split(s, sep) for a non-empty separator.
RECURSIVE Split(_, _)
Split(s, sep) ==
    LET i == IndexFrom(s, sep, 1)
    IN  IF i = 0 THEN <<s>>
        ELSE <<SubSeq(s, 1, i - 1)>> \o Split(Drop(s, i + Len(sep) - 1), sep)

\* The text with new after each of its runes: the two bytes of an encoded rune
\* make one rune, any other byte is a rune of width one.
RECURSIVE AfterEachRune(_, _)
AfterEachRune(s, new) ==
    IF s = <<>> THEN <<>>
    ELSE IF Len(s) >= 2 /\ s[1] = "<C3>" /\ s[2] = "<A9>"
         THEN SubSeq(s, 1, 2) \o new \o AfterEachRune(Drop(s, 2), new)
    ELSE <<s[1]>> \o new \o AfterEachRune(Tail(s), new)

\* strings.Replace(s, old, new, -1): an empty old matches at the beginning of
\* the text and after each rune.
RECURSIVE ReplaceAll(_, _, _)
ReplaceAll(s, old, new) ==
    IF old = <<>> THEN new \o AfterEachRune(s, new)
    ELSE LET i == IndexFrom(s, old, 1)
         IN  IF i = 0 THEN s
             ELSE SubSeq(s, 1, i - 1) \o new \o ReplaceAll(Drop(s, i + Len(old) - 1), old, new)

RECURSIVE SkipDigits(_, _)
SkipDigits(s, i) ==
    IF i <= Len(s) /\ IsDigit(s[i]) THEN SkipDigits(s, i + 1) ELSE i

RECURSIVE SkipNonDigits(_, _)
SkipNonDigits(s, i) ==
    IF i <= Len(s) /\ ~IsDigit(s[i]) THEN SkipNonDigits(s, i + 1) ELSE i

\* First position at or after i holding a line feed, Len(s) + 1 if none.
RECURSIVE SkipLine(_, _)
SkipLine(s, i) ==
    IF i <= Len(s) /\ s[i] # "\n" THEN SkipLine(s, i + 1) ELSE i

(***************************************************************************)
(* Integers.  int is the 32 bit int of the 32 bit builds (386, arm).        *)
(***************************************************************************)
IntMax == 2147483647

DigitVal(c) == CHOOSE n \in 0..9 : ToString(n) = c

\* strconv.Atoi of a string of decimal digits: the value, or a range error
\* together with the largest int.
RECURSIVE AtoiFrom(_, _, _)
AtoiFrom(s, i, acc) ==
    IF i > Len(s) THEN [val |-> acc, ok |-> TRUE]
    ELSE LET d == DigitVal(s[i])
         IN  IF acc > (IntMax - d) \div 10 THEN [val |-> IntMax, ok |-> FALSE]
             ELSE AtoiFrom(s, i + 1, acc * 10 + d)

Atoi(s) == AtoiFrom(s, 1, 0)

(***************************************************************************)
(* Errors.  An error is identified by a name; Nil is the nil error.         *)
(***************************************************************************)
Nil == "nil"

ErrEmergencyLockDown == "ErrEmergencyLockDown"

ErrRateLimitExceeded == "ErrRateLimitExceeded"

ErrPINAndShortcutNotFound == "ErrPINAndShortcutNotFound"

ErrPINAndShortcutsUndefined == "ErrPINAndShortcutsUndefined"

ErrEmptyCommand == "ErrEmptyCommand"

ErrPLTNotAvailable == "ErrPLTNotAvailable"

ErrBadPLT == "ErrBadPLT"

ErrBadPrefix == "ErrBadPrefix"

ErrFeature == "ErrFeature"

ErrResultFilter == "ErrResultFilter"

\* error.Error(): the message of an error.
ErrorText(e) ==
    CASE e = ErrRateLimitExceeded -> <<"c","o","m","m","a","n","d"," ","p","r","o","c","e","s","s","o","r"," ","i","n","t","e","r","n","a","l"," ","r","a","t","e"," ","l","i","m","i","t"," ","h","a","s"," ","b","e","e","n"," ","e","x","c","e","e","d","e","d">>
      [] e = ErrPINAndShortcutNotFound -> <<"f","a","i","l","e","d"," ","t","o"," ","m","a","t","c","h"," ","P","I","N","/","s","h","o","r","t","c","u","t">>
      [] e = ErrPINAndShortcutsUndefined -> <<"b","o","t","h"," ","P","I","N"," ","a","n","d"," ","s","h","o","r","t","c","u","t","s"," ","a","r","e"," ","u","n","d","e","f","i","n","e","d">>
      [] e = ErrPLTNotAvailable -> <<"P","L","T"," ","i","s"," ","n","o","t"," ","a","v","a","i","l","a","b","l","e"," ","b","e","c","a","u","s","e"," ","L","i","n","t","T","e","x","t"," ","i","s"," ","n","o","t"," ","u","s","e","d">>
      [] e = ErrBadPLT -> <<".","p","l","t"," ","P"," ","L"," ","T"," ","c","o","m","m","a","n","d">>
      [] e = ErrBadPrefix -> <<"b","a","d"," ","p","r","e","f","i","x"," ","o","r"," ","f","e","a","t","u","r","e"," ","i","s"," ","n","o","t"," ","c","o","n","f","i","g","u","r","e","d">>
      [] e = ErrEmergencyLockDown -> <<"L","O","C","K","E","D"," ","D","O","W","N">>
      [] e = ErrEmptyCommand -> <<"e","m","p","t","y"," ","c","o","m","m","a","n","d">>
      [] OTHER -> <<"e","r","r","o","r">>

(***************************************************************************)
(* Command and Result.                                                     *)
(***************************************************************************)
Command(content, timeoutSec, daemonName) ==
    [Content |-> content, TimeoutSec |-> timeoutSec, DaemonName |-> daemonName]

\* toolbox.Command{}
ZeroCommand == Command(<<>>, 0, "")

Result(command, output, error, combined) ==
    [Command |-> command, Output |-> output, Error |-> error, CombinedOutput |-> combined]

\* &toolbox.Result{Error: e}
ErrorResult(e) == Result(ZeroCommand, <<>>, e, <<>>)

\* Command.Lines
Lines(cmd) == Split(cmd.Content, <<"\n">>)

\* Command.Trim: the command with its content trimmed, and the error of the
\* Result it returns (Nil when it returns no Result).
Trim(cmd) ==
    LET trimmed == TrimSpace(cmd.Content)
    IN  [cmd |-> [cmd EXCEPT !.Content = trimmed],
         err |-> IF trimmed = <<>> THEN ErrEmptyCommand ELSE Nil]

\* Command.FindAndRemovePrefix: whether the prefix starts the trimmed content,
\* and the command left behind.
FindAndRemovePrefix(cmd, prefix) ==
    LET trimmed == TrimSpace(cmd.Content)
    IN  IF HasPrefix(trimmed, prefix)
        THEN [found |-> TRUE, cmd |-> [cmd EXCEPT !.Content = Drop(trimmed, Len(prefix))]]
        ELSE [found |-> FALSE, cmd |-> cmd]

CombinedTextSeparator == <<"|">>

\* Result.ResetCombinedText
ResetCombinedText(res) ==
    [res EXCEPT !.CombinedOutput =
        IF res.Error # Nil THEN ErrorText(res.Error) \o CombinedTextSeparator \o res.Output
        ELSE res.Output]

(***************************************************************************)
(* The PLT prefix.                                                         *)
(***************************************************************************)
PrefixCommandPLT == <<".","p","l","t">>

MaxCmdPerSecHardLimit == 1000

\* RegexCommandWithPLT.FindStringSubmatch for
\*   [^\d]*(\d+)[^\d]+(\d+)[^\d]*(\d+)(.*)
\* The match, when there is one, starts at the first byte: the leading
\* non-digits, the whole first run of digits, the non-digits after it, then the
\* second run of digits, the non-digits after it and the third run; when there
\* is no third run the second run gives up its last digit to the third group.
\* The last group stops at a line feed.  No match is the empty sequence.
RegexCommandWithPLT(s) ==
    LET a == SkipNonDigits(s, 1)
        b == SkipDigits(s, a)
        c == SkipNonDigits(s, b)
        d == SkipDigits(s, c)
        e == SkipNonDigits(s, d)
        f == SkipDigits(s, e)
    IN  IF b = a \/ c = b \/ d = c THEN <<>>
        ELSE IF f > e
             THEN LET z == SkipLine(s, f)
                  IN  <<SubSeq(s, 1, z - 1), SubSeq(s, a, b - 1), SubSeq(s, c, d - 1),
                        SubSeq(s, e, f - 1), SubSeq(s, f, z - 1)>>
        ELSE IF d - c >= 2
             THEN LET z == SkipLine(s, d)
                  IN  <<SubSeq(s, 1, z - 1), SubSeq(s, a, b - 1), SubSeq(s, c, d - 2),
                        SubSeq(s, d - 1, d - 1), SubSeq(s, d, z - 1)>>
        ELSE <<>>

(***************************************************************************)
(* Command filters.  A filter is a record; kind names its type.            *)
(***************************************************************************)
NoShortcuts == [k \in {} |-> <<>>]

PINAndShortcuts(pin, shortcuts) ==
    [kind |-> "PINAndShortcuts", PIN |-> pin, Shortcuts |-> shortcuts, Sequences |-> <<>>]

TranslateSequences(sequences) ==
    [kind |-> "TranslateSequences", PIN |-> <<>>, Shortcuts |-> NoShortcuts, Sequences |-> sequences]

\* The loop of PINAndShortcuts.Transform comparing the length of the line only.
RECURSIVE PINMatchLinesLengthOnly(_, _, _, _)
PINMatchLinesLengthOnly(pin, cmd, lines, i) ==
    IF i > Len(lines) THEN [cmd |-> cmd, err |-> ErrPINAndShortcutNotFound]
    ELSE LET line == TrimSpace(lines[i])
         IN  IF line \in DOMAIN pin.Shortcuts
             THEN [cmd |-> [cmd EXCEPT !.Content = pin.Shortcuts[line]], err |-> Nil]
             ELSE IF Len(line) > Len(pin.PIN)
             THEN [cmd |-> [cmd EXCEPT !.Content = Drop(line, Len(pin.PIN))], err |-> Nil]
             ELSE PINMatchLinesLengthOnly(pin, cmd, lines, i + 1)

\* The loop of PINAndShortcuts.Transform trying the PIN before the shortcuts.
RECURSIVE PINMatchLinesPINFirst(_, _, _, _)
PINMatchLinesPINFirst(pin, cmd, lines, i) ==
    IF i > Len(lines) THEN [cmd |-> cmd, err |-> ErrPINAndShortcutNotFound]
    ELSE LET line == TrimSpace(lines[i])
         IN  IF Len(line) > Len(pin.PIN) /\ SubSeq(line, 1, Len(pin.PIN)) = pin.PIN
             THEN [cmd |-> [cmd EXCEPT !.Content = Drop(line, Len(pin.PIN))], err |-> Nil]
             ELSE IF line \in DOMAIN pin.Shortcuts
             THEN [cmd |-> [cmd EXCEPT !.Content = pin.Shortcuts[line]], err |-> Nil]
             ELSE PINMatchLinesPINFirst(pin, cmd, lines, i + 1)

\* The loop of PINAndShortcuts.Transform over the lines from line i on.
RECURSIVE PINMatchLines(_, _, _, _)
PINMatchLines(pin, cmd, lines, i) ==
    IF i > Len(lines) THEN [cmd |-> cmd, err |-> ErrPINAndShortcutNotFound]
    ELSE LET line == TrimSpace(lines[i])
         IN  IF line \in DOMAIN pin.Shortcuts
             THEN [cmd |-> [cmd EXCEPT !.Content = pin.Shortcuts[line]], err |-> Nil]
             ELSE IF Len(line) > Len(pin.PIN) /\ SubSeq(line, 1, Len(pin.PIN)) = pin.PIN
             THEN [cmd |-> [cmd EXCEPT !.Content = Drop(line, Len(pin.PIN))], err |-> Nil]
             ELSE PINMatchLines(pin, cmd, lines, i + 1)

\* PINAndShortcuts.Transform without the check of the configuration.
PINAndShortcutsTransformUnchecked(pin, cmd) ==
    PINMatchLines(pin, cmd, Lines(cmd), 1)

\* PINAndShortcuts.Transform
PINAndShortcutsTransform(pin, cmd) ==
    IF pin.PIN = <<>> /\ DOMAIN pin.Shortcuts = {}
    THEN [cmd |-> ZeroCommand, err |-> ErrPINAndShortcutsUndefined]
    ELSE PINMatchLines(pin, cmd, Lines(cmd), 1)

\* The loop of TranslateSequences.Transform stopping after the first tuple of
\* two it meets.
RECURSIVE TranslateFromFirstOnly(_, _, _)
TranslateFromFirstOnly(sequences, content, i) ==
    IF i > Len(sequences) THEN content
    ELSE IF Len(sequences[i]) # 2 THEN TranslateFromFirstOnly(sequences, content, i + 1)
    ELSE ReplaceAll(content, sequences[i][1], sequences[i][2])

\* The loop of TranslateSequences.Transform from tuple i on.
RECURSIVE TranslateFrom(_, _, _)
TranslateFrom(sequences, content, i) ==
    IF i > Len(sequences) THEN content
    ELSE IF Len(sequences[i]) # 2 THEN TranslateFrom(sequences, content, i + 1)
    ELSE TranslateFrom(sequences, ReplaceAll(content, sequences[i][1], sequences[i][2]), i + 1)

\* TranslateSequences.Transform
TranslateSequencesTransform(tr, cmd) ==
    [cmd |-> [cmd EXCEPT !.Content = TranslateFrom(tr.Sequences, cmd.Content, 1)], err |-> Nil]

\* CommandFilter.Transform, by the type of the filter.
CommandFilterTransform(flt, cmd) ==
    IF flt.kind = "PINAndShortcuts" THEN PINAndShortcutsTransform(flt, cmd)
    ELSE TranslateSequencesTransform(flt, cmd)

(***************************************************************************)
(* Result filters.                                                         *)
(***************************************************************************)
LintText(trimSpaces, compressToSingleLine, keepVisible7BitCharOnly, compressSpaces, beginPosition, maxLength) ==
    [kind |-> "LintText", TrimSpaces |-> trimSpaces, CompressToSingleLine |-> compressToSingleLine,
     KeepVisible7BitCharOnly |-> keepVisible7BitCharOnly, CompressSpaces |-> compressSpaces,
     BeginPosition |-> beginPosition, MaxLength |-> maxLength, configured |-> FALSE, fails |-> FALSE]

\* The zero value of filter.LintText.
ZeroLintText == LintText(FALSE, FALSE, FALSE, FALSE, 0, 0)

SayEmptyOutput == [ZeroLintText EXCEPT !.kind = "SayEmptyOutput"]

\* configured is the value of NotifyViaEmail.IsConfigured.
NotifyViaEmail(isConfigured) ==
    [ZeroLintText EXCEPT !.kind = "NotifyViaEmail", !.configured = isConfigured]

\* Any other implementation of the ResultFilter interface: its Transform
\* leaves the Result alone and returns an error when fails is set.
OtherResultFilter(fails) == [ZeroLintText EXCEPT !.kind = "Other", !.fails = fails]

\* Step 1 of LintText.Transform: every line trimmed and followed by a line feed.
RECURSIVE TrimLines(_, _)
TrimLines(lines, i) ==
    IF i > Len(lines) THEN <<>>
    ELSE TrimSpace(lines[i]) \o <<"\n">> \o TrimLines(lines, i + 1)

\* Step 3 of LintText.Transform, rune by rune: the two bytes of an encoded
\* rune make one rune, a stray high byte is an invalid rune of width one.
RECURSIVE RetainPrintable(_)
RetainPrintable(s) ==
    IF s = <<>> THEN <<>>
    ELSE IF Len(s) >= 2 /\ s[1] = "<C3>" /\ s[2] = "<A9>" THEN <<"?">> \o RetainPrintable(Drop(s, 2))
    ELSE IF IsPrintOrSpace7Bit(s[1]) THEN <<s[1]>> \o RetainPrintable(Tail(s))
    ELSE <<"?">> \o RetainPrintable(Tail(s))

\* RegexConsecutiveSpaces.ReplaceAllString(s, " ")
RECURSIVE CompressSpaces(_)
CompressSpaces(s) ==
    IF s = <<>> THEN <<>>
    ELSE IF IsSpace(s[1]) THEN <<" ">> \o CompressSpaces(TrimLeft(s))
    ELSE <<s[1]>> \o CompressSpaces(Tail(s))

\* LintText.Transform with the trimmed lines not trimmed as a whole.
LintTextTransformLinesOnly(lint, text) ==
    LET s1 == IF lint.TrimSpaces THEN TrimLines(Split(text, <<"\n">>), 1) ELSE text
        s2 == IF lint.CompressToSingleLine THEN ReplaceAll(s1, <<"\n">>, <<";">>) ELSE s1
        s3 == IF lint.KeepVisible7BitCharOnly THEN RetainPrintable(s2) ELSE s2
        s4 == IF lint.CompressSpaces THEN CompressSpaces(s3) ELSE s3
        s5 == IF lint.BeginPosition > 0
              THEN (IF Len(s4) > lint.BeginPosition THEN Drop(s4, lint.BeginPosition) ELSE <<>>)
              ELSE s4
    IN  IF lint.MaxLength > 0 /\ Len(s5) > lint.MaxLength THEN SubSeq(s5, 1, lint.MaxLength) ELSE s5

\* LintText.Transform with the cut to MaxLength made before the cut at
\* BeginPosition.
LintTextTransformLengthFirst(lint, text) ==
    LET s1 == IF lint.TrimSpaces THEN TrimSpace(TrimLines(Split(text, <<"\n">>), 1)) ELSE text
        s2 == IF lint.CompressToSingleLine THEN ReplaceAll(s1, <<"\n">>, <<";">>) ELSE s1
        s3 == IF lint.KeepVisible7BitCharOnly THEN RetainPrintable(s2) ELSE s2
        s4 == IF lint.CompressSpaces THEN CompressSpaces(s3) ELSE s3
        s5 == IF lint.MaxLength > 0 /\ Len(s4) > lint.MaxLength THEN SubSeq(s4, 1, lint.MaxLength) ELSE s4
    IN  IF lint.BeginPosition > 0
        THEN (IF Len(s5) > lint.BeginPosition THEN Drop(s5, lint.BeginPosition) ELSE <<>>)
        ELSE s5

\* LintText.Transform: the new CombinedOutput.
LintTextTransform(lint, text) ==
    LET s1 == IF lint.TrimSpaces THEN TrimSpace(TrimLines(Split(text, <<"\n">>), 1)) ELSE text
        s2 == IF lint.CompressToSingleLine THEN ReplaceAll(s1, <<"\n">>, <<";">>) ELSE s1
        s3 == IF lint.KeepVisible7BitCharOnly THEN RetainPrintable(s2) ELSE s2
        s4 == IF lint.CompressSpaces THEN CompressSpaces(s3) ELSE s3
        s5 == IF lint.BeginPosition > 0
              THEN (IF Len(s4) > lint.BeginPosition THEN Drop(s4, lint.BeginPosition) ELSE <<>>)
              ELSE s4
    IN  IF lint.MaxLength > 0 /\ Len(s5) > lint.MaxLength THEN SubSeq(s5, 1, lint.MaxLength) ELSE s5

EmptyOutputText == <<"E","M","P","T","Y"," ","O","U","T","P","U","T">>

\* SayEmptyOutput.Transform: the new CombinedOutput.
SayEmptyOutputTransform(text) ==
    IF \E i \in 1..Len(text) : IsGraph(text[i]) THEN text ELSE EmptyOutputText

OutgoingMailSubjectKeyword == <<"l","a","i","t","o","s">>

\* The subject and the body the send task of NotifyViaEmail.Transform reads
\* from the Result it refers to.
NotificationMail(res) ==
    [subject |-> OutgoingMailSubjectKeyword \o <<"-","n","o","t","i","f","y","-">> \o res.Command.Content,
     body |-> res.CombinedOutput]

\* A send task started whatever the error of the Result.
NotifyStartsTaskAnyError(notify, res) ==
    notify.configured

\* Whether NotifyViaEmail.Transform starts a send task for the Result.
NotifyStartsTask(notify, res) ==
    notify.configured /\ res.Error # ErrPINAndShortcutNotFound

\* ResultFilter.Transform, by the type of the filter: the Result as the filter
\* leaves it, the error it returns, and whether it started a send task.
ResultFilterTransform(flt, res) ==
    CASE flt.kind = "LintText" ->
            [res |-> [res EXCEPT !.CombinedOutput = LintTextTransform(flt, res.CombinedOutput)],
             err |-> Nil, task |-> FALSE]
      [] flt.kind = "SayEmptyOutput" ->
            [res |-> [res EXCEPT !.CombinedOutput = SayEmptyOutputTransform(res.CombinedOutput)],
             err |-> Nil, task |-> FALSE]
      [] flt.kind = "NotifyViaEmail" ->
            [res |-> res, err |-> Nil, task |-> NotifyStartsTask(flt, res)]
      [] OTHER ->
            [res |-> res, err |-> IF flt.fails THEN ErrResultFilter ELSE Nil, task |-> FALSE]

(***************************************************************************)
(* The Twilio front end: what the handlers write to the HTTP response for   *)
(* the Result Process returned.  The body is the sequence of the chunks     *)
(* written, each with the text put into it.                                 *)
(***************************************************************************)
TwilioHandlerTimeoutSec == 14

\* xml.EscapeText on the bytes of the model's alphabet.
RECURSIVE XMLEscape(_)
XMLEscape(in) ==
    IF in = <<>> THEN <<>>
    ELSE (CASE in[1] = "<" -> <<"&","l","t",";">>
            [] in[1] = ">" -> <<"&","g","t",";">>
            [] in[1] = "&" -> <<"&","a","m","p",";">>
            [] in[1] = "\n" -> <<"&","#","x","A",";">>
            [] OTHER -> <<in[1]>>) \o XMLEscape(Tail(in))

Chunk(kind, text) == [kind |-> kind, text |-> text]

\* http.Error(w, "404 page not found", http.StatusNotFound): plain text, the
\* status, and the message as the first chunk of the body.
NotFoundPage == Chunk("plain", <<"4","0","4">>)

\* The handler of TwilioSMSHook after Process: the branch on
\* PINAndShortcutNotFound does not return, so the XML response is written in
\* every case; once the header has gone out with the status 404, setting the
\* Content-Type changes nothing and the XML is added to the body.
TwilioSMSHookResponse(ret) ==
    LET message == Chunk("Message", XMLEscape(ret.CombinedOutput))
    IN  IF ret.Error = ErrPINAndShortcutNotFound
        THEN [handler |-> "TwilioSMSHook", status |-> 404, contentType |-> "text/plain",
              body |-> <<NotFoundPage, message>>]
        ELSE [handler |-> "TwilioSMSHook", status |-> 200, contentType |-> "text/xml",
              body |-> <<message>>]

\* The handler of TwilioCallCallback after Process.
TwilioCallCallbackResponse(ret) ==
    LET combinedOutput == XMLEscape(ret.CombinedOutput)
    IN  [handler |-> "TwilioCallCallback", status |-> 200, contentType |-> "text/xml",
         body |-> IF ret.Error = ErrPINAndShortcutNotFound
                  THEN <<Chunk("Say", <<"S","o","r","r","y">>), Chunk("Hangup", <<>>)>>
                  ELSE <<Chunk("Gather", <<>>), Chunk("Say", combinedOutput),
                         Chunk("Say", combinedOutput), Chunk("Say", combinedOutput)>>]

(***************************************************************************)
(* The rate limiter (misc.RateLimit): a counter per key, reset every        *)
(* UnitSecs by the limiter's ticker.  The processor uses the one key        *)
(* "instance".                                                              *)
(***************************************************************************)
NoRateLimit == [made |-> FALSE, UnitSecs |-> 0, MaxCount |-> 0, counter |-> 0]

NewRateLimit(unitSecs, maxCount) ==
    [made |-> TRUE, UnitSecs |-> unitSecs, MaxCount |-> maxCount, counter |-> 0]

\* RateLimit.Add admitting without counting the event.
RateLimitAddUncounted(rl) ==
    IF rl.counter >= rl.MaxCount THEN [ok |-> FALSE, rl |-> rl]
    ELSE [ok |-> TRUE, rl |-> rl]

\* RateLimit.Add: whether the event is admitted, and the limiter afterwards.
RateLimitAdd(rl) ==
    IF rl.counter >= rl.MaxCount THEN [ok |-> FALSE, rl |-> rl]
    ELSE [ok |-> TRUE, rl |-> [rl EXCEPT !.counter = @ + 1]]

(***************************************************************************)
(* Features.  A feature is identified by its trigger.                      *)
(***************************************************************************)
ShellTrigger == <<".","s">>

AESDecryptTrigger == <<".","a">>

TwoFATrigger == <<".","2">>

LongTrigger == <<".","s","x">>

HiddenLogContent == <<"<","h","i","d","d","e","n"," ","d","u","e"," ","t","o"," ","A","E","S","D","e","c","r","y","p","t","T","r","i","g","g","e","r"," ","o","r"," ","T","w","o","F","A","T","r","i","g","g","e","r",">">>

\* What Feature.Execute may return for the command it is given: the Output is
\* the content it received or nothing, the Error is nil or the feature's own,
\* and the Command of the Result is the feature's own altered copy.
FeatureResults(cmd) ==
    { Result([cmd EXCEPT !.Content = @ \o <<"~">>], out, err, <<>>) :
        out \in {cmd.Content, <<>>}, err \in {Nil, ErrFeature} }

(***************************************************************************)
(* Processor configurations.                                               *)
(***************************************************************************)
TestCommandProcessorPIN == <<"p","w">>

TestShortcuts == [k \in {<<"s","c">>} |-> <<".","s"," ","y">>]

TestLintText == LintText(TRUE, FALSE, FALSE, FALSE, 0, 35)

\* A CommandProcessor as configured.  unassigned names the fields that are nil
\* (none here), initDone is the state of initOnce, initCount the number of
\* times the function handed to initOnce has run.
Processor(features, commandFilters, resultFilters, maxCmdPerSec) ==
    [Features |-> features, CommandFilters |-> commandFilters, ResultFilters |-> resultFilters,
     MaxCmdPerSec |-> maxCmdPerSec, unassigned |-> {}, initDone |-> FALSE, initCount |-> 0]

\* The processor of GetTestCommandProcessor, with two features.
TestCommandProcessor ==
    Processor({ShellTrigger, AESDecryptTrigger},
              <<PINAndShortcuts(TestCommandProcessorPIN, NoShortcuts),
                TranslateSequences(<< <<<<"h","i">>, <<"y","o">>>> >>)>>,
              <<TestLintText, SayEmptyOutput, NotifyViaEmail(FALSE)>>, 0)

Processors ==
    { TestCommandProcessor,
      Processor({ShellTrigger, LongTrigger, AESDecryptTrigger},
                <<TranslateSequences(<< <<<<"p","x">>, <<"p","w">>>>, <<<<"o","d","d">>>> >>),
                  PINAndShortcuts(TestCommandProcessorPIN, TestShortcuts),
                  TranslateSequences(<< <<<<"h","i">>, <<"y","o">>>> >>)>>,
                <<NotifyViaEmail(TRUE), LintText(FALSE, TRUE, TRUE, TRUE, 0, 35),
                  OtherResultFilter(FALSE), SayEmptyOutput>>, 2),
      Processor({ShellTrigger, TwoFATrigger},
                <<PINAndShortcuts(<<>>, TestShortcuts)>>,
                <<SayEmptyOutput>>, 1),
      Processor({ShellTrigger},
                <<PINAndShortcuts(<<>>, NoShortcuts)>>,
                <<TestLintText, OtherResultFilter(TRUE), SayEmptyOutput>>, 1001),
      Processor({ShellTrigger, AESDecryptTrigger},
                <<PINAndShortcuts(TestCommandProcessorPIN, NoShortcuts)>>,
                <<TestLintText, OtherResultFilter(TRUE), NotifyViaEmail(TRUE)>>, -1),
      Processor({ShellTrigger},
                <<PINAndShortcuts(<<>>, TestShortcuts)>>,
                <<TestLintText>>, 1),
      Processor({}, <<>>, <<>>, 1) }

(***************************************************************************)
(* Inputs of Process.                                                      *)
(***************************************************************************)
PINParts == {<<"p","w">>, <<"p","x">>, <<>>, <<"z","z","\n"," ","p","w">>}

PLTParts == {<<>>, <<".","p","l","t"," ","0"," ","5"," ","9"," ">>, <<".","p","l","t"," ","1"," ","2","3">>, <<".","p","l","t"," ","b","o","g","u","s">>, <<".","p","l","t"," ","2"," ","3"," ","4">>,
             <<".","p","l","t"," ","9","9","9","9","9","9","9","9","9","9","9"," ","1"," ","1"," ">>, <<".","p","l","t"," ","1"," ","2"," ","9","9","9","9","9","9","9","9","9","9","9"," ">>}

CommandParts == {<<".","s"," ","h","i"," ">>, <<".","a"," ","k","e","y">>, <<".","u"," ","f","o","o">>, <<".","s","x"," ","q">>,
                 <<".","2"," ","6">>, <<>>}

Contents == {a \o b \o c : a \in PINParts, b \in PLTParts, c \in CommandParts} \cup {<<"s","c">>, <<" ","\n">>}

TimeoutSecs == {14}

DaemonNames == {"httpd"}

(***************************************************************************)
(* State.                                                                  *)
(***************************************************************************)
VARIABLES
    proc,               \* the CommandProcessor: configuration, MaxCmdPerSec, initOnce
    rateLimit,          \* proc.rateLimit
    EmergencyLockDown,  \* misc.EmergencyLockDown
    calls,              \* the Process calls: position, locals, Result, observed events;
                        \* lockedDownAtCall is the lock down flag as it was at the call,
                        \* admitted whether the call passed the rate limit admission
    callsInWindow,      \* Process calls started since the limiter's last reset
    admittedInWindow,   \* of these, the calls that passed the rate limit admission
    mailTasks,          \* the send tasks started by NotifyViaEmail and not yet run
    lastMail,           \* the mail handed to the mail client last
    applied             \* a call of a function of the processor or of a filter outside
                        \* Process: the function, its arguments and what it returned

vars == <<proc, rateLimit, EmergencyLockDown, calls, callsInWindow, admittedInWindow, mailTasks, lastMail, applied>>

\* An observed event of a call: a command filter Transform ("cf"), a feature
\* Execute ("exec"), a result filter Transform ("rf"), a log line ("log") or
\* the statistics hook ("stats").
Event(ev, idx, cmd, res, flt, text) ==
    [ev |-> ev, idx |-> idx, cmd |-> cmd, res |-> res, flt |-> flt, text |-> text]

NoResult == ErrorResult(Nil)

\* No HTTP response written yet.
NoResponse == [handler |-> "", status |-> 0, contentType |-> "", body |-> <<>>]

IdleCall ==
    [pc |-> "idle", input |-> ZeroCommand, cmd |-> ZeroCommand, runResultFilters |-> FALSE,
     lockedDownAtCall |-> FALSE, admitted |-> FALSE,
     ret |-> NoResult, out |-> NoResult,
     filterDisapproval |-> Nil, matchedFeature |-> <<>>,
     overrideLintText |-> ZeroLintText, hasOverrideLintText |-> FALSE,
     logCommandContent |-> <<>>, rfIdx |-> 0,
     statsDeferred |-> FALSE, finishedDeferred |-> FALSE, trace |-> <<>>,
     response |-> NoResponse]

\* No mail yet; failed tells that MailClient.Send returned an error, which the
\* send task logs as a warning.
NoMail == [subject |-> <<>>, body |-> <<>>, failed |-> FALSE]

\* A call of the function fn on the filter flt and the argument arg; done once
\* it has returned, out and again are what it returned.
Application(fn, flt, arg) ==
    [fn |-> fn, flt |-> flt, arg |-> arg, done |-> FALSE, out |-> <<>>, again |-> <<>>]

NoApplication == Application("none", ZeroLintText, <<>>)

(***************************************************************************)
(* CommandProcessor.Process, piece by piece.                               *)
(***************************************************************************)

\* The return of Process with the statistics hook left out.
ReturnWithoutStats(call, out) ==
    LET finished == IF call.finishedDeferred
                    THEN <<Event("log", 2, ZeroCommand, out, ZeroLintText, call.logCommandContent)>>
                    ELSE <<>>
    IN  [call EXCEPT !.pc = "returned", !.out = out, !.trace = @ \o finished]

\* The return of Process with Result out: the deferred functions run, last
\* deferred first.
Return(call, out) ==
    LET finished == IF call.finishedDeferred
                    THEN <<Event("log", 2, ZeroCommand, out, ZeroLintText, call.logCommandContent)>>
                    ELSE <<>>
        stats == IF call.statsDeferred
                 THEN <<Event("stats", 0, ZeroCommand, NoResult, ZeroLintText, <<>>)>>
                 ELSE <<>>
    IN  [call EXCEPT !.pc = "returned", !.out = out, !.trace = @ \o finished \o stats]

\* The label result without the content of the Command being restored.
AtResultContentKept(p, call) ==
    LET ret == ResetCombinedText([call.ret EXCEPT !.Command = call.cmd])
        done == [call EXCEPT !.ret = ret]
    IN  IF call.runResultFilters /\ Len(p.ResultFilters) > 0
        THEN [done EXCEPT !.pc = "resultfilters", !.rfIdx = 1]
        ELSE Return(done, ret)

\* From the label result: the Command is attached with the logged content, the
\* combined text is set, and the result filters are walked if asked for.
AtResult(p, call) ==
    LET ret == ResetCombinedText(
                  [call.ret EXCEPT !.Command = [call.cmd EXCEPT !.Content = call.logCommandContent]])
        done == [call EXCEPT !.ret = ret]
    IN  IF call.runResultFilters /\ Len(p.ResultFilters) > 0
        THEN [done EXCEPT !.pc = "resultfilters", !.rfIdx = 1]
        ELSE Return(done, ret)

\* The loop over the command filters going on after a filter returned an error.
RECURSIVE CommandFiltersFromGoesOn(_, _, _, _)
CommandFiltersFromGoesOn(filters, cmd, i, trace) ==
    IF i > Len(filters) THEN [cmd |-> cmd, err |-> Nil, trace |-> trace]
    ELSE LET r == CommandFilterTransform(filters[i], cmd)
             t == Append(trace, Event("cf", i, cmd, NoResult, ZeroLintText, <<>>))
         IN  IF r.err # Nil /\ i = Len(filters) THEN [cmd |-> r.cmd, err |-> r.err, trace |-> t]
             ELSE CommandFiltersFromGoesOn(filters, r.cmd, i + 1, t)

\* The loop over the command filters from filter i on.
RECURSIVE CommandFiltersFrom(_, _, _, _)
CommandFiltersFrom(filters, cmd, i, trace) ==
    IF i > Len(filters) THEN [cmd |-> cmd, err |-> Nil, trace |-> trace]
    ELSE LET r == CommandFilterTransform(filters[i], cmd)
             t == Append(trace, Event("cf", i, cmd, NoResult, ZeroLintText, <<>>))
         IN  IF r.err # Nil THEN [cmd |-> r.cmd, err |-> r.err, trace |-> t]
             ELSE CommandFiltersFrom(filters, r.cmd, i + 1, t)

\* The configured LintText filters, by position.
LintTextPositions(resultFilters) ==
    {i \in 1..Len(resultFilters) : resultFilters[i].kind = "LintText"}

Min(S) == CHOOSE x \in S : \A y \in S : x <= y

\* The PLT override: the command, the error, and the override of LintText.
PLTOverride(resultFilters, cmd) ==
    LET f == FindAndRemovePrefix(cmd, PrefixCommandPLT)
        pos == LintTextPositions(resultFilters)
        Out(c, e, has, lint) == [cmd |-> c, err |-> e, has |-> has, lint |-> lint]
    IN  IF ~f.found THEN Out(cmd, Nil, FALSE, ZeroLintText)
        ELSE IF pos = {} THEN Out(f.cmd, ErrPLTNotAvailable, FALSE, ZeroLintText)
        ELSE LET lint0 == resultFilters[Min(pos)]
                 pltParams == RegexCommandWithPLT(f.cmd.Content)
             IN  IF Len(pltParams) # 5 THEN Out(f.cmd, ErrBadPLT, TRUE, lint0)
                 ELSE LET p == Atoi(pltParams[2])
                          l == Atoi(pltParams[3])
                          t == Atoi(pltParams[4])
                          lint1 == [lint0 EXCEPT !.BeginPosition = p.val]
                          lint2 == [lint1 EXCEPT !.MaxLength = l.val]
                          cmd3 == [f.cmd EXCEPT !.TimeoutSec = t.val]
                          cmd4 == [cmd3 EXCEPT !.Content = pltParams[5]]
                      IN  IF ~p.ok THEN Out(f.cmd, ErrBadPLT, TRUE, lint1)
                          ELSE IF ~l.ok THEN Out(f.cmd, ErrBadPLT, TRUE, lint2)
                          ELSE IF ~t.ok THEN Out(cmd3, ErrBadPLT, TRUE, lint2)
                          ELSE IF cmd4.Content = <<>> THEN Out(cmd4, ErrBadPLT, TRUE, lint2)
                          ELSE Out(cmd4, Nil, TRUE, lint2)

\* The override written through the pointer to the configured filter.
ConfiguredAfterPLTAliased(resultFilters, cmd) ==
    LET plt == PLTOverride(resultFilters, cmd)
    IN  IF plt.has THEN [resultFilters EXCEPT ![Min(LintTextPositions(resultFilters))] = plt.lint]
        ELSE resultFilters

\* The configured result filters once the PLT parameters are parsed:
\* overrideLintText is a copy of the configured LintText (a struct of booleans
\* and integers), so the assignments to it leave the configured filter alone.
ConfiguredAfterPLT(resultFilters, cmd) ==
    resultFilters

\* The triggers FindAndRemovePrefix finds on the command: the loop over the
\* map LookupByTrigger stops at whichever of them it meets first.
MatchingTriggers(features, cmd) ==
    {prefix \in features : FindAndRemovePrefix(cmd, prefix).found}

\* The selection of the feature with the logged content left as it is.
FeatureSelectedUnredacted(call, cmd, prefix) ==
    LET logged == cmd.Content
    IN  [call EXCEPT !.pc = "execute",
                     !.cmd = FindAndRemovePrefix(cmd, prefix).cmd,
                     !.matchedFeature = prefix,
                     !.logCommandContent = logged,
                     !.finishedDeferred = TRUE,
                     !.trace = Append(@, Event("log", 1, ZeroCommand, NoResult, ZeroLintText, logged))]

\* The call when the feature of the trigger has been selected.
FeatureSelected(call, cmd, prefix) ==
    LET logged == IF prefix = AESDecryptTrigger \/ prefix = TwoFATrigger
                  THEN HiddenLogContent ELSE cmd.Content
    IN  [call EXCEPT !.pc = "execute",
                     !.cmd = FindAndRemovePrefix(cmd, prefix).cmd,
                     !.matchedFeature = prefix,
                     !.logCommandContent = logged,
                     !.finishedDeferred = TRUE,
                     !.trace = Append(@, Event("log", 1, ZeroCommand, NoResult, ZeroLintText, logged))]

\* Process from the command filters to the selection of the feature: the calls
\* it may lead to, either about to run a feature or past the label result.
ProcessCommand(p, call) ==
    LET cf == CommandFiltersFrom(p.CommandFilters, call.cmd, 1, call.trace)
        c1 == [call EXCEPT !.cmd = cf.cmd, !.filterDisapproval = cf.err, !.trace = cf.trace]
        tr == Trim(cf.cmd)
        c2 == [c1 EXCEPT !.cmd = tr.cmd, !.statsDeferred = TRUE]
        plt == PLTOverride(p.ResultFilters, tr.cmd)
        c3 == [c2 EXCEPT !.cmd = plt.cmd, !.hasOverrideLintText = plt.has, !.overrideLintText = plt.lint]
        c4 == [c3 EXCEPT !.logCommandContent = plt.cmd.Content]
        matching == MatchingTriggers(p.Features, plt.cmd)
    IN  IF cf.err # Nil THEN {AtResult(p, [c1 EXCEPT !.ret = ErrorResult(cf.err)])}
        ELSE IF tr.err # Nil THEN {AtResult(p, [c2 EXCEPT !.ret = ErrorResult(tr.err)])}
        ELSE IF plt.err # Nil THEN {AtResult(p, [c3 EXCEPT !.ret = ErrorResult(plt.err)])}
        ELSE IF matching = {} THEN {AtResult(p, [c4 EXCEPT !.ret = ErrorResult(ErrBadPrefix)])}
        ELSE {FeatureSelected(c4, plt.cmd, prefix) : prefix \in matching}

\* The result filter at position i with the override left out.
ResultFilterAtConfigured(p, call, i) ==
    p.ResultFilters[i]

\* The result filter the loop applies at position i.
ResultFilterAt(p, call, i) ==
    IF p.ResultFilters[i].kind = "LintText" /\ call.hasOverrideLintText
    THEN call.overrideLintText
    ELSE p.ResultFilters[i]

\* One round of the loop over the result filters going on after an error.
ResultFilterRoundGoesOn(p, call) ==
    LET i == call.rfIdx
        flt == ResultFilterAt(p, call, i)
        r == ResultFilterTransform(flt, call.ret)
        seen == [call EXCEPT !.trace = Append(@, Event("rf", i, ZeroCommand, call.ret, flt, <<>>)),
                             !.ret = r.res]
    IN  IF i = Len(p.ResultFilters) THEN Return(seen, r.res)
        ELSE [seen EXCEPT !.rfIdx = i + 1]

\* One round of the loop over the result filters returning the error of the
\* Result instead of the one of the command filters.
ResultFilterRoundKeepsError(p, call) ==
    LET i == call.rfIdx
        flt == ResultFilterAt(p, call, i)
        r == ResultFilterTransform(flt, call.ret)
        seen == [call EXCEPT !.trace = Append(@, Event("rf", i, ZeroCommand, call.ret, flt, <<>>)),
                             !.ret = r.res]
    IN  IF r.err # Nil
        THEN Return(seen, Result(r.res.Command, <<>>, r.res.Error, <<>>))
        ELSE IF i = Len(p.ResultFilters) THEN Return(seen, r.res)
        ELSE [seen EXCEPT !.rfIdx = i + 1]

\* One round of the loop over the result filters.
ResultFilterRound(p, call) ==
    LET i == call.rfIdx
        flt == ResultFilterAt(p, call, i)
        r == ResultFilterTransform(flt, call.ret)
        seen == [call EXCEPT !.trace = Append(@, Event("rf", i, ZeroCommand, call.ret, flt, <<>>)),
                             !.ret = r.res]
    IN  IF r.err # Nil
        THEN Return(seen, Result(r.res.Command, <<>>, call.filterDisapproval, <<>>))
        ELSE IF i = Len(p.ResultFilters) THEN Return(seen, r.res)
        ELSE [seen EXCEPT !.rfIdx = i + 1]

\* The reset of MaxCmdPerSec in initialiseOnce looking at the upper limit only.
ClampMaxCmdPerSecAbove(n) ==
    IF n > MaxCmdPerSecHardLimit THEN MaxCmdPerSecHardLimit ELSE n

\* The reset of MaxCmdPerSec in initialiseOnce.
ClampMaxCmdPerSec(n) ==
    IF n < 1 \/ n > MaxCmdPerSecHardLimit THEN MaxCmdPerSecHardLimit ELSE n

\* The lock down check left out.
LockDownCheckSkipped(call, lockedDown) ==
    [call EXCEPT !.pc = "ratelimit"]

\* The lock down check of Process: the call returns or goes on to the rate limit.
LockDownCheck(call, lockedDown) ==
    IF lockedDown THEN Return(call, ErrorResult(ErrEmergencyLockDown))
    ELSE [call EXCEPT !.pc = "ratelimit"]

\* The rate limit check with the refusal of the limiter ignored.
RateLimitCheckIgnored(call, admitted) ==
    [call EXCEPT !.pc = "filters", !.admitted = TRUE]

\* The rate limit check of Process: the call returns or goes on to the filters.
RateLimitCheck(call, admitted) ==
    IF ~admitted THEN Return(call, ErrorResult(ErrRateLimitExceeded))
    ELSE [call EXCEPT !.pc = "filters", !.admitted = TRUE]

\* The call when the feature has returned res.
FeatureReturned(p, call, res) ==
    AtResult(p, [call EXCEPT !.ret = res,
                             !.trace = Append(@, Event("exec", 0, call.cmd, res, ZeroLintText, call.matchedFeature))])

(***************************************************************************)
(* Initial state: a processor as configured, no call made.                 *)
(***************************************************************************)
CallIds == {1}

Init ==
    /\ proc \in Processors
    /\ rateLimit = NoRateLimit
    /\ EmergencyLockDown = FALSE
    /\ calls = [c \in CallIds |-> IdleCall]
    /\ callsInWindow = 0
    /\ admittedInWindow = 0
    /\ mailTasks = <<>>
    /\ lastMail = NoMail
    /\ applied = NoApplication

(***************************************************************************)
(* Actions.                                                                *)
(***************************************************************************)
\* A front end calls Process(cmd, runResultFilters) with one of the contents.
StartCallWith(c, contents) ==
    /\ calls[c].pc = "idle"
    /\ callsInWindow < MaxCalls
    /\ \E content \in contents, timeoutSec \in TimeoutSecs, daemonName \in DaemonNames,
          runResultFilters \in BOOLEAN :
          calls' = [calls EXCEPT ![c] =
                       [IdleCall EXCEPT !.pc = "init",
                                        !.input = Command(content, timeoutSec, daemonName),
                                        !.cmd = Command(content, timeoutSec, daemonName),
                                        !.runResultFilters = runResultFilters,
                                        !.lockedDownAtCall = EmergencyLockDown]]
    /\ callsInWindow' = callsInWindow + 1
    /\ lastMail' = NoMail
    /\ UNCHANGED <<proc, rateLimit, EmergencyLockDown, admittedInWindow, mailTasks, applied>>

\* A front end calls Process(cmd, runResultFilters).
StartCall(c) == StartCallWith(c, Contents)

\* The front end is done with the Result of the call, and the Result goes away
\* once no send task refers to it any more.
ReleaseResult(c) ==
    /\ calls[c].pc \in {"returned", "responded"}
    /\ \A i \in 1..Len(mailTasks) : mailTasks[i] # c
    /\ calls' = [calls EXCEPT ![c] = IdleCall]
    /\ UNCHANGED <<proc, rateLimit, EmergencyLockDown, callsInWindow, admittedInWindow, mailTasks, lastMail, applied>>

\* The Twilio handler that made the call writes its response.
TwilioRespond(c) ==
    /\ calls[c].pc = "returned"
    /\ calls[c].input.TimeoutSec = TwilioHandlerTimeoutSec
    /\ \E response \in {TwilioSMSHookResponse(calls[c].out), TwilioCallCallbackResponse(calls[c].out)} :
          calls' = [calls EXCEPT ![c] = [@ EXCEPT !.pc = "responded", !.response = response]]
    /\ UNCHANGED <<proc, rateLimit, EmergencyLockDown, callsInWindow, admittedInWindow, mailTasks, lastMail, applied>>

\* proc.initialiseOnce()
InitialiseOnce(c) ==
    /\ calls[c].pc = "init"
    /\ IF proc.initDone
       THEN UNCHANGED <<proc, rateLimit>>
       ELSE /\ proc' = [proc EXCEPT !.MaxCmdPerSec = ClampMaxCmdPerSec(@), !.initDone = TRUE,
                                    !.initCount = @ + 1]
            /\ rateLimit' = IF rateLimit.made THEN rateLimit
                            ELSE NewRateLimit(1, ClampMaxCmdPerSec(proc.MaxCmdPerSec))
    /\ calls' = [calls EXCEPT ![c].pc = "lockdown"]
    /\ UNCHANGED <<EmergencyLockDown, callsInWindow, admittedInWindow, mailTasks, lastMail, applied>>

\* if misc.EmergencyLockDown { return ... }
CheckLockDown(c) ==
    /\ calls[c].pc = "lockdown"
    /\ calls' = [calls EXCEPT ![c] = LockDownCheck(calls[c], EmergencyLockDown)]
    /\ UNCHANGED <<proc, rateLimit, EmergencyLockDown, callsInWindow, admittedInWindow, mailTasks, lastMail, applied>>

\* if !proc.rateLimit.Add("instance", true) { return ... }
CheckRateLimit(c) ==
    /\ calls[c].pc = "ratelimit"
    /\ LET r == RateLimitAdd(rateLimit)
           next == RateLimitCheck(calls[c], r.ok)
       IN  /\ rateLimit' = r.rl
           /\ calls' = [calls EXCEPT ![c] = next]
           /\ admittedInWindow' = IF next.pc = "filters" THEN admittedInWindow + 1 ELSE admittedInWindow
    /\ UNCHANGED <<proc, EmergencyLockDown, callsInWindow, mailTasks, lastMail, applied>>

\* The command filters, the trim, the PLT override and the feature lookup.
RunCommandFilters(c) ==
    /\ calls[c].pc = "filters"
    /\ \E next \in ProcessCommand(proc, calls[c]) : calls' = [calls EXCEPT ![c] = next]
    /\ LET cf == CommandFiltersFrom(proc.CommandFilters, calls[c].cmd, 1, <<>>)
           tr == Trim(cf.cmd)
       IN  proc' = IF cf.err = Nil /\ tr.err = Nil
                   THEN [proc EXCEPT !.ResultFilters = ConfiguredAfterPLT(@, tr.cmd)]
                   ELSE proc
    /\ UNCHANGED <<rateLimit, EmergencyLockDown, callsInWindow, admittedInWindow, mailTasks, lastMail, applied>>

\* ret = matchedFeature.Execute(cmd), up to the result filters.
Execute(c) ==
    /\ calls[c].pc = "execute"
    /\ \E res \in FeatureResults(calls[c].cmd) :
          calls' = [calls EXCEPT ![c] = FeatureReturned(proc, calls[c], res)]
    /\ UNCHANGED <<proc, rateLimit, EmergencyLockDown, callsInWindow, admittedInWindow, mailTasks, lastMail, applied>>

\* resultFilter.Transform(ret) for the next result filter.
RunResultFilter(c) ==
    /\ calls[c].pc = "resultfilters"
    /\ LET flt == ResultFilterAt(proc, calls[c], calls[c].rfIdx)
       IN  /\ calls' = [calls EXCEPT ![c] = ResultFilterRound(proc, calls[c])]
           /\ mailTasks' = IF ResultFilterTransform(flt, calls[c].ret).task
                           THEN Append(mailTasks, c) ELSE mailTasks
    /\ UNCHANGED <<proc, rateLimit, EmergencyLockDown, callsInWindow, admittedInWindow, lastMail, applied>>

\* A send task of NotifyViaEmail runs: it reads the Result it refers to, and
\* the delivery succeeds or fails.
MailSend(i) ==
    /\ i \in 1..Len(mailTasks)
    /\ \E failed \in BOOLEAN :
          LET mail == NotificationMail(calls[mailTasks[i]].ret)
          IN  lastMail' = [subject |-> mail.subject, body |-> mail.body, failed |-> failed]
    /\ mailTasks' = SubSeq(mailTasks, 1, i - 1) \o SubSeq(mailTasks, i + 1, Len(mailTasks))
    /\ UNCHANGED <<proc, rateLimit, EmergencyLockDown, calls, callsInWindow, admittedInWindow, applied>>

\* The ticker of the rate limiter resets the counter.
Tick ==
    /\ rateLimit.made
    /\ callsInWindow > 0
    /\ rateLimit' = [rateLimit EXCEPT !.counter = 0]
    /\ callsInWindow' = 0
    /\ admittedInWindow' = 0
    /\ UNCHANGED <<proc, EmergencyLockDown, calls, mailTasks, lastMail, applied>>

\* The emergency lock down is triggered.
TriggerEmergencyLockDown ==
    /\ ~EmergencyLockDown
    /\ EmergencyLockDown' = TRUE
    /\ UNCHANGED <<proc, rateLimit, calls, callsInWindow, admittedInWindow, mailTasks, lastMail, applied>>

Next ==
    \/ \E c \in DOMAIN calls : StartCall(c)
    \/ \E c \in DOMAIN calls : InitialiseOnce(c)
    \/ \E c \in DOMAIN calls : CheckLockDown(c)
    \/ \E c \in DOMAIN calls : CheckRateLimit(c)
    \/ \E c \in DOMAIN calls : RunCommandFilters(c)
    \/ \E c \in DOMAIN calls : Execute(c)
    \/ \E c \in DOMAIN calls : RunResultFilter(c)
    \/ \E c \in DOMAIN calls : TwilioRespond(c)
    \/ \E c \in DOMAIN calls : ReleaseResult(c)
    \/ \E i \in 1..Len(mailTasks) : MailSend(i)
    \/ Tick
    \/ TriggerEmergencyLockDown

Spec == Init /\ [][Next]_vars

(***************************************************************************)
(* The command filters on their own: Transform is called on a Command      *)
(* outside Process.                                                        *)
(***************************************************************************)
\* The texts of at most MaxTextLen bytes over an alphabet.
TextsOver(alphabet) == UNION {[1..n -> alphabet] : n \in 0..MaxTextLen}

\* No Process call is made and none has been made.
NoProcessCall ==
    /\ rateLimit = NoRateLimit
    /\ EmergencyLockDown = FALSE
    /\ calls = [c \in CallIds |-> IdleCall]
    /\ callsInWindow = 0
    /\ admittedInWindow = 0
    /\ mailTasks = <<>>
    /\ lastMail = NoMail

PINFilters ==
    {PINAndShortcuts(pin, shortcuts) :
        pin \in {<<>>, <<"p">>},
        shortcuts \in {NoShortcuts, [k \in {<<"p", "a">>} |-> <<"s">>]}}

PINCommands ==
    {Command(content, timeoutSec, daemonName) :
        content \in TextsOver({"p", "a", " ", "\n"}),
        timeoutSec \in TimeoutSecs, daemonName \in DaemonNames}

\* The search and replacement strings of the translation rules.
RuleStrings == {s \in TextsOver({"a", "b"}) : Len(s) <= 2}

\* The TranslateSequences filters of two rules.
TranslateFilters ==
    {TranslateSequences(<< <<s1, r1>>, <<s2, r2>> >>) :
        s1 \in RuleStrings, r1 \in RuleStrings, s2 \in RuleStrings, r2 \in RuleStrings}

TranslateCommands ==
    {Command(content, timeoutSec, daemonName) :
        content \in TextsOver({"a", "b"}),
        timeoutSec \in TimeoutSecs, daemonName \in DaemonNames}

\* The filter with its rules in the opposite order.
Reversed(tr) ==
    [tr EXCEPT !.Sequences = [i \in 1..Len(tr.Sequences) |-> tr.Sequences[Len(tr.Sequences) + 1 - i]]]

InitCommandFilters ==
    /\ proc = TestCommandProcessor
    /\ NoProcessCall
    /\ applied \in {Application("PINAndShortcuts.Transform", flt, cmd) :
                       flt \in PINFilters, cmd \in PINCommands}
                  \cup {Application("TranslateSequences.Transform", flt, cmd) :
                           flt \in TranslateFilters, cmd \in TranslateCommands}

\* pin.Transform(cmd)
ApplyPINAndShortcuts ==
    /\ applied.fn = "PINAndShortcuts.Transform"
    /\ ~applied.done
    /\ applied' = [applied EXCEPT !.done = TRUE,
                                  !.out = PINAndShortcutsTransform(applied.flt, applied.arg)]
    /\ UNCHANGED <<proc, rateLimit, EmergencyLockDown, calls, callsInWindow, admittedInWindow, mailTasks, lastMail>>

\* tr.Transform(cmd), and the Transform of the filter with the rules in the
\* opposite order on the same Command
ApplyTranslateSequences ==
    /\ applied.fn = "TranslateSequences.Transform"
    /\ ~applied.done
    /\ applied' = [applied EXCEPT !.done = TRUE,
                                  !.out = TranslateSequencesTransform(applied.flt, applied.arg),
                                  !.again = TranslateSequencesTransform(Reversed(applied.flt), applied.arg)]
    /\ UNCHANGED <<proc, rateLimit, EmergencyLockDown, calls, callsInWindow, admittedInWindow, mailTasks, lastMail>>

NextCommandFilters ==
    \/ ApplyPINAndShortcuts
    \/ ApplyTranslateSequences

SpecCommandFilters == InitCommandFilters /\ [][NextCommandFilters]_vars

(***************************************************************************)
(* Concurrent first calls of Process: initOnce.Do step by step.  Do runs   *)
(* the function for the first caller and holds every other caller back     *)
(* until the function has returned.                                        *)
(***************************************************************************)
ConcurrentCallIds == {1, 2}

ConcurrentContents == {<<"p","w",".","s"," ","h","i"," ">>, <<"p","x">>}

\* The positions of a call inside the function handed to initOnce.Do.
InsideOnce == {"clamp", "construct", "leaveonce"}

\* Do entered without holding back the callers that arrive while the function
\* runs.
EnterOnceUnguardedCall(call, p, all) ==
    IF p.initDone THEN [call EXCEPT !.pc = "lockdown"] ELSE [call EXCEPT !.pc = "clamp"]

\* proc.initOnce.Do entered by the call: past it when the function has run,
\* into the function when no call is inside, else held back (the call as it is).
EnterOnceCall(call, p, all) ==
    IF p.initDone THEN [call EXCEPT !.pc = "lockdown"]
    ELSE IF \A c \in DOMAIN all : all[c].pc \notin InsideOnce THEN [call EXCEPT !.pc = "clamp"]
    ELSE call

InitConcurrent ==
    /\ proc \in {p \in Processors : \A i \in 1..Len(p.ResultFilters) : ~p.ResultFilters[i].configured}
    /\ rateLimit = NoRateLimit
    /\ EmergencyLockDown = FALSE
    /\ calls = [c \in ConcurrentCallIds |-> IdleCall]
    /\ callsInWindow = 0
    /\ admittedInWindow = 0
    /\ mailTasks = <<>>
    /\ lastMail = NoMail
    /\ applied = NoApplication

StartConcurrentCall(c) == StartCallWith(c, ConcurrentContents)

\* proc.initOnce.Do(...)
EnterOnce(c) ==
    /\ calls[c].pc = "init"
    /\ EnterOnceCall(calls[c], proc, calls) # calls[c]
    /\ calls' = [calls EXCEPT ![c] = EnterOnceCall(calls[c], proc, calls)]
    /\ UNCHANGED <<proc, rateLimit, EmergencyLockDown, callsInWindow, admittedInWindow, mailTasks, lastMail, applied>>

\* if proc.MaxCmdPerSec < 1 || proc.MaxCmdPerSec > MaxCmdPerSecHardLimit { ... }
ClampLimit(c) ==
    /\ calls[c].pc = "clamp"
    /\ proc' = [proc EXCEPT !.MaxCmdPerSec = ClampMaxCmdPerSec(@), !.initCount = @ + 1]
    /\ calls' = [calls EXCEPT ![c].pc = "construct"]
    /\ UNCHANGED <<rateLimit, EmergencyLockDown, callsInWindow, admittedInWindow, mailTasks, lastMail, applied>>

\* if proc.rateLimit == nil { proc.rateLimit = &misc.RateLimit{...} }
ConstructLimiter(c) ==
    /\ calls[c].pc = "construct"
    /\ rateLimit' = IF rateLimit.made THEN rateLimit ELSE NewRateLimit(1, proc.MaxCmdPerSec)
    /\ calls' = [calls EXCEPT ![c].pc = "leaveonce"]
    /\ UNCHANGED <<proc, EmergencyLockDown, callsInWindow, admittedInWindow, mailTasks, lastMail, applied>>

\* The function has returned: Do marks it done and lets the callers go.
LeaveOnce(c) ==
    /\ calls[c].pc = "leaveonce"
    /\ proc' = [proc EXCEPT !.initDone = TRUE]
    /\ calls' = [calls EXCEPT ![c].pc = "lockdown"]
    /\ UNCHANGED <<rateLimit, EmergencyLockDown, callsInWindow, admittedInWindow, mailTasks, lastMail, applied>>

NextConcurrent ==
    \/ \E c \in DOMAIN calls : StartConcurrentCall(c)
    \/ \E c \in DOMAIN calls : EnterOnce(c)
    \/ \E c \in DOMAIN calls : ClampLimit(c)
    \/ \E c \in DOMAIN calls : ConstructLimiter(c)
    \/ \E c \in DOMAIN calls : LeaveOnce(c)
    \/ \E c \in DOMAIN calls : CheckLockDown(c)
    \/ \E c \in DOMAIN calls : CheckRateLimit(c)
    \/ \E c \in DOMAIN calls : RunCommandFilters(c)
    \/ \E c \in DOMAIN calls : Execute(c)
    \/ \E c \in DOMAIN calls : RunResultFilter(c)

SpecConcurrent == InitConcurrent /\ [][NextConcurrent]_vars

(***************************************************************************)
(* The checks of the configuration: IsEmpty and IsSaneForInternet.         *)
(***************************************************************************)
ErrBadProcessorConfig == <<"b","a","d"," ","c","o","n","f","i","g","u","r","a","t","i","o","n",":"," ">>

ErrFeatureSetNotAssigned == ErrBadProcessorConfig \o <<"F","e","a","t","u","r","e","S","e","t"," ","i","s"," ","n","o","t"," ","a","s","s","i","g","n","e","d">>

ErrFeatureSetNotInitialised == ErrBadProcessorConfig \o <<"F","e","a","t","u","r","e","S","e","t"," ","i","s"," ","n","o","t"," ","i","n","i","t","i","a","l","i","s","e","d"," ","o","r"," ","a","l","l"," ","f","e","a","t","u","r","e","s"," ","a","r","e"," ","l","a","c","k","i","n","g"," ","c","o","n","f","i","g","u","r","a","t","i","o","n">>

ErrCommandFiltersNotAssigned == ErrBadProcessorConfig \o <<"C","o","m","m","a","n","d","F","i","l","t","e","r","s"," ","i","s"," ","n","o","t"," ","a","s","s","i","g","n","e","d">>

ErrPINOrShortcutsMissing == ErrBadProcessorConfig \o <<"D","e","f","i","n","e","d"," ","i","n"," ","P","I","N","A","n","d","S","h","o","r","t","c","u","t","s"," ","t","h","e","r","e"," ","h","a","s"," ","t","o"," ","b","e"," ","p","a","s","s","w","o","r","d"," ","P","I","N",","," ","c","o","m","m","a","n","d"," ","s","h","o","r","t","c","u","t","s",","," ","o","r"," ","b","o","t","h",".">>

ErrPINTooShort == ErrBadProcessorConfig \o <<"P","a","s","s","w","o","r","d"," ","P","I","N"," ","m","u","s","t"," ","b","e"," ","a","t"," ","l","e","a","s","t"," ","7"," ","c","h","a","r","a","c","t","e","r","s"," ","l","o","n","g">>

ErrPINAndShortcutsMissing == ErrBadProcessorConfig \o <<"\"","P","I","N","A","n","d","S","h","o","r","t","c","u","t","s","\""," ","f","i","l","t","e","r"," ","m","u","s","t"," ","b","e"," ","d","e","f","i","n","e","d"," ","t","o"," ","s","e","t"," ","u","p"," ","p","a","s","s","w","o","r","d"," ","P","I","N"," ","p","r","o","t","e","c","t","i","o","n"," ","o","r"," ","c","o","m","m","a","n","d"," ","s","h","o","r","t","c","u","t","s">>

ErrResultFiltersNotAssigned == ErrBadProcessorConfig \o <<"R","e","s","u","l","t","F","i","l","t","e","r","s"," ","i","s"," ","n","o","t"," ","a","s","s","i","g","n","e","d">>

ErrLintTextMaxLength == ErrBadProcessorConfig \o <<"M","a","x","i","m","u","m"," ","o","u","t","p","u","t"," ","l","e","n","g","t","h"," ","f","o","r"," ","L","i","n","t","T","e","x","t"," ","m","u","s","t"," ","b","e"," ","w","i","t","h","i","n"," ","[","3","5",","," ","4","0","9","6","]">>

ErrLintTextMissing == ErrBadProcessorConfig \o <<"\"","L","i","n","t","T","e","x","t","\""," ","f","i","l","t","e","r"," ","m","u","s","t"," ","b","e"," ","d","e","f","i","n","e","d"," ","t","o"," ","r","e","s","t","r","i","c","t"," ","c","o","m","m","a","n","d"," ","o","u","t","p","u","t"," ","l","e","n","g","t","h">>

\* The loop of IsEmpty taking a PINAndShortcuts for empty only when it has no
\* shortcut either.
RECURSIVE IsEmptyFromNoShortcuts(_, _)
IsEmptyFromNoShortcuts(filters, i) ==
    IF i > Len(filters) THEN FALSE
    ELSE IF filters[i].kind = "PINAndShortcuts" /\ filters[i].PIN = <<>>
            /\ DOMAIN filters[i].Shortcuts = {} THEN TRUE
    ELSE IsEmptyFromNoShortcuts(filters, i + 1)

\* The loop of IsEmpty over the command filters from filter i on.
RECURSIVE IsEmptyFrom(_, _)
IsEmptyFrom(filters, i) ==
    IF i > Len(filters) THEN FALSE
    ELSE IF filters[i].kind = "PINAndShortcuts" /\ filters[i].PIN = <<>> THEN TRUE
    ELSE IsEmptyFrom(filters, i + 1)

\* CommandProcessor.IsEmpty
IsEmpty(p) ==
    IF "CommandFilters" \in p.unassigned \/ Len(p.CommandFilters) = 0 THEN TRUE
    ELSE IsEmptyFrom(p.CommandFilters, 1)

\* What IsSaneForInternet holds against the PINAndShortcuts it looks at.
PINAndShortcutsErrors(pin) ==
    (IF pin.PIN = <<>> /\ DOMAIN pin.Shortcuts = {} THEN <<ErrPINOrShortcutsMissing>> ELSE <<>>)
    \o (IF pin.PIN # <<>> /\ Len(pin.PIN) < 7 THEN <<ErrPINTooShort>> ELSE <<>>)

\* The loop of IsSaneForInternet over the command filters from filter i on.
RECURSIVE CommandFilterErrorsFrom(_, _)
CommandFilterErrorsFrom(filters, i) ==
    IF i > Len(filters) THEN <<ErrPINAndShortcutsMissing>>
    ELSE IF filters[i].kind = "PINAndShortcuts" THEN PINAndShortcutsErrors(filters[i])
    ELSE CommandFilterErrorsFrom(filters, i + 1)

\* What IsSaneForInternet holds against the LintText it looks at.
LintTextErrors(linter) ==
    IF linter.MaxLength < 35 \/ linter.MaxLength > 4096 THEN <<ErrLintTextMaxLength>> ELSE <<>>

\* The loop of IsSaneForInternet over the result filters from filter i on.
RECURSIVE ResultFilterErrorsFrom(_, _)
ResultFilterErrorsFrom(filters, i) ==
    IF i > Len(filters) THEN <<ErrLintTextMissing>>
    ELSE IF filters[i].kind = "LintText" THEN LintTextErrors(filters[i])
    ELSE ResultFilterErrorsFrom(filters, i + 1)

\* CommandProcessor.IsSaneForInternet: the errors in the order they are added.
IsSaneForInternet(p) ==
    (IF "Features" \in p.unassigned THEN <<ErrFeatureSetNotAssigned>>
     ELSE IF p.Features = {} THEN <<ErrFeatureSetNotInitialised>> ELSE <<>>)
    \o (IF "CommandFilters" \in p.unassigned THEN <<ErrCommandFiltersNotAssigned>>
        ELSE CommandFilterErrorsFrom(p.CommandFilters, 1))
    \o (IF "ResultFilters" \in p.unassigned THEN <<ErrResultFiltersNotAssigned>>
        ELSE ResultFilterErrorsFrom(p.ResultFilters, 1))

\* The PINs of the processors checked: none, six bytes, seven bytes, and six
\* characters of which the last takes two bytes.
SanityPINs == {<<>>, <<"1","2","3","4","5","6">>, <<"1","2","3","4","5","6","7">>, <<"1","2","3","4","5">> \o <<"<C3>", "<A9>">>}

SanityCommandFilters ==
    {PINAndShortcuts(pin, shortcuts) : pin \in SanityPINs, shortcuts \in {NoShortcuts, TestShortcuts}}
    \cup {TranslateSequences(<<>>)}

SanityResultFilters ==
    {LintText(TRUE, FALSE, FALSE, FALSE, 0, maxLength) : maxLength \in {34, 35, 4096, 4097}}
    \cup {SayEmptyOutput}

\* The sequences of at most two of the filters.
UpToTwo(filters) == {<<>>} \cup {<<f>> : f \in filters} \cup {<<f, g>> : f \in filters, g \in filters}

\* The processors checked: every field nil, empty or filled.
SanityProcessors ==
    {[Processor(features, commandFilters, resultFilters, 0) EXCEPT !.unassigned = nils] :
        features \in {{}, {ShellTrigger}},
        commandFilters \in UpToTwo(SanityCommandFilters),
        resultFilters \in UpToTwo(SanityResultFilters),
        nils \in SUBSET {"Features", "CommandFilters", "ResultFilters"}}

\* The processors a program can hold: a nil field has nothing in it.
WellFormedProcessor(p) ==
    /\ "Features" \in p.unassigned => p.Features = {}
    /\ "CommandFilters" \in p.unassigned => p.CommandFilters = <<>>
    /\ "ResultFilters" \in p.unassigned => p.ResultFilters = <<>>

InitSanity ==
    /\ proc \in {p \in SanityProcessors : WellFormedProcessor(p)}
    /\ NoProcessCall
    /\ applied \in {Application("IsEmpty", ZeroLintText, <<>>),
                    Application("IsSaneForInternet", ZeroLintText, <<>>)}

\* proc.IsEmpty()
CallIsEmpty ==
    /\ applied.fn = "IsEmpty"
    /\ ~applied.done
    /\ applied' = [applied EXCEPT !.done = TRUE, !.out = IsEmpty(proc)]
    /\ UNCHANGED <<proc, rateLimit, EmergencyLockDown, calls, callsInWindow, admittedInWindow, mailTasks, lastMail>>

\* proc.IsSaneForInternet()
CallIsSaneForInternet ==
    /\ applied.fn = "IsSaneForInternet"
    /\ ~applied.done
    /\ applied' = [applied EXCEPT !.done = TRUE, !.out = IsSaneForInternet(proc)]
    /\ UNCHANGED <<proc, rateLimit, EmergencyLockDown, calls, callsInWindow, admittedInWindow, mailTasks, lastMail>>

NextSanity ==
    \/ CallIsEmpty
    \/ CallIsSaneForInternet

SpecSanity == InitSanity /\ [][NextSanity]_vars

(***************************************************************************)
(* The result filters on their own: Transform is called on a Result        *)
(* outside Process, and once more on what it left.                         *)
(***************************************************************************)
LintTexts ==
    {LintText(trimSpaces, compressToSingleLine, keepVisible7BitCharOnly, compressSpaces,
              beginPosition, maxLength) :
        trimSpaces \in BOOLEAN, compressToSingleLine \in BOOLEAN,
        keepVisible7BitCharOnly \in BOOLEAN, compressSpaces \in BOOLEAN,
        beginPosition \in {0, 1}, maxLength \in {0, 1, 2}}

LintTextInputs == TextsOver({"a", " ", "\n", "<C3>", "<A9>"})

\* The Results handed to SayEmptyOutput: any text, with and without an error.
SayEmptyOutputInputs ==
    {Result(Command(<<".", "s">>, timeoutSec, daemonName), <<"o">>, err, text) :
        timeoutSec \in TimeoutSecs, daemonName \in DaemonNames, err \in {Nil, ErrFeature},
        text \in TextsOver({"a", " ", "\n", "<C3>", "<A9>", "<07>"})}

InitResultFilters ==
    /\ proc = TestCommandProcessor
    /\ NoProcessCall
    /\ applied \in {Application("LintText.Transform", lint, text) :
                       lint \in LintTexts, text \in LintTextInputs}
                  \cup {Application("SayEmptyOutput.Transform", SayEmptyOutput, res) :
                           res \in SayEmptyOutputInputs}

\* lint.Transform(result) twice over
ApplyLintText ==
    /\ applied.fn = "LintText.Transform"
    /\ ~applied.done
    /\ LET once == LintTextTransform(applied.flt, applied.arg)
       IN  applied' = [applied EXCEPT !.done = TRUE, !.out = once,
                                      !.again = LintTextTransform(applied.flt, once)]
    /\ UNCHANGED <<proc, rateLimit, EmergencyLockDown, calls, callsInWindow, admittedInWindow, mailTasks, lastMail>>

\* empty.Transform(result)
ApplySayEmptyOutput ==
    /\ applied.fn = "SayEmptyOutput.Transform"
    /\ ~applied.done
    /\ applied' = [applied EXCEPT !.done = TRUE,
                                  !.out = ResultFilterTransform(applied.flt, applied.arg)]
    /\ UNCHANGED <<proc, rateLimit, EmergencyLockDown, calls, callsInWindow, admittedInWindow, mailTasks, lastMail>>

NextResultFilters ==
    \/ ApplyLintText
    \/ ApplySayEmptyOutput

SpecResultFilters == InitResultFilters /\ [][NextResultFilters]_vars

(***************************************************************************)
(* Properties.                                                             *)
(***************************************************************************)
Returned(c) == calls[c].pc \in {"returned", "responded"}

\* The events of a kind a call has observed, by position in its trace.
EventsOf(call, ev) == {i \in 1..Len(call.trace) : call.trace[i].ev = ev}

\* No command filter, feature or result filter was invoked by the call.
NothingInvoked(call) ==
    EventsOf(call, "cf") = {} /\ EventsOf(call, "exec") = {} /\ EventsOf(call, "rf") = {}

\* C1: a Process call made while the emergency lock down flag is set returns
\* the Result of the error EmergencyLockDown, and invokes no command filter, no
\* feature and no result filter, whatever runResultFilters is.
C1_LockDownRejects ==
    \A c \in DOMAIN calls :
        Returned(c) /\ calls[c].lockedDownAtCall =>
            /\ calls[c].out.Error = ErrEmergencyLockDown
            /\ NothingInvoked(calls[c])

C1_Witness ==
    \E c \in DOMAIN calls :
        /\ Returned(c) /\ calls[c].lockedDownAtCall /\ calls[c].runResultFilters
        /\ Len(proc.ResultFilters) > 0 /\ Len(proc.CommandFilters) > 0

\* The first command filter is a PINAndShortcuts with a PIN or with shortcuts.
FirstFilterIsPIN(p) ==
    /\ Len(p.CommandFilters) > 0
    /\ p.CommandFilters[1].kind = "PINAndShortcuts"
    /\ (p.CommandFilters[1].PIN # <<>> \/ DOMAIN p.CommandFilters[1].Shortcuts # {})

\* No trimmed line of the content is a shortcut key or starts with the PIN.
NoLineAuthenticates(pin, content) ==
    \A line \in {TrimSpace(Split(content, <<"\n">>)[i]) : i \in 1..Len(Split(content, <<"\n">>))} :
        line \notin DOMAIN pin.Shortcuts /\ ~HasPrefix(line, pin.PIN)

\* C2: with PINAndShortcuts (PIN or shortcuts set) as the first command filter,
\* an admitted call whose content has no trimmed line that is a shortcut key
\* or starts with the PIN returns PINAndShortcutNotFound and runs no feature.
C2_NoCredentialNotFound ==
    \A c \in DOMAIN calls :
        /\ Returned(c) /\ calls[c].admitted /\ FirstFilterIsPIN(proc)
        /\ NoLineAuthenticates(proc.CommandFilters[1], calls[c].input.Content)
        => /\ calls[c].out.Error = ErrPINAndShortcutNotFound
           /\ EventsOf(calls[c], "exec") = {}

C2_Witness ==
    \E c \in DOMAIN calls :
        /\ Returned(c) /\ calls[c].admitted /\ FirstFilterIsPIN(proc)
        /\ NoLineAuthenticates(proc.CommandFilters[1], calls[c].input.Content)
        /\ HasPrefix(calls[c].input.Content, <<"p", "x", ".", "s">>)
        /\ calls[c].runResultFilters

\* C3: in one window of the rate limiter at most MaxCmdPerSec (as reset by the
\* first call) calls pass the admission; a call that passed the lock down check
\* is admitted exactly when fewer than that many were admitted in the window,
\* so again after a reset; a call that is not admitted returns
\* RateLimitExceeded and invokes no filter and no feature.
C3_RateLimit ==
    /\ [](proc.initDone =>
            /\ proc.MaxCmdPerSec \in 1..MaxCmdPerSecHardLimit
            /\ admittedInWindow <= proc.MaxCmdPerSec)
    /\ [](\A c \in DOMAIN calls :
            Returned(c) /\ ~calls[c].admitted /\ calls[c].out.Error # ErrEmergencyLockDown =>
                calls[c].out.Error = ErrRateLimitExceeded /\ NothingInvoked(calls[c]))
    /\ [][\A c \in DOMAIN calls :
            calls[c].pc = "ratelimit" /\ calls'[c].pc # "ratelimit" =>
                /\ calls'[c].admitted <=> admittedInWindow < proc.MaxCmdPerSec
                /\ calls'[c].admitted <=> calls'[c].pc = "filters"
                /\ ~calls'[c].admitted => calls'[c].pc = "returned"]_vars

C3_Witness ==
    \E c \in DOMAIN calls :
        /\ Returned(c) /\ calls[c].out.Error = ErrRateLimitExceeded
        /\ proc.MaxCmdPerSec = 2 /\ admittedInWindow = 2
        /\ calls[c].runResultFilters

\* The feature the call has run, as the event of its Execute.
ExecEvent(call) == call.trace[CHOOSE i \in EventsOf(call, "exec") : TRUE]

IsSensitive(prefix) == prefix = AESDecryptTrigger \/ prefix = TwoFATrigger

\* C4: an admitted call returns a Result whose Command has the content the
\* processor logged: nothing if the call failed before the feature lookup, the
\* redaction marker for a sensitive trigger, else the content with the trigger
\* still in front; never what the trigger removal or the feature left.
C4_LoggedContentReturned ==
    \A c \in DOMAIN calls :
        Returned(c) /\ calls[c].admitted =>
            LET call == calls[c]
                content == call.out.Command.Content
            IN  /\ content = call.logCommandContent
                /\ \A i \in EventsOf(call, "log") : call.trace[i].text = content
                /\ EventsOf(call, "exec") # {} =>
                    /\ content # ExecEvent(call).cmd.Content
                    /\ content # ExecEvent(call).res.Command.Content
                    /\ IF IsSensitive(call.matchedFeature) THEN content = HiddenLogContent
                       ELSE TrimSpace(content) = call.matchedFeature \o ExecEvent(call).cmd.Content
                /\ call.ret.Error \in {ErrPINAndShortcutNotFound, ErrPINAndShortcutsUndefined,
                                       ErrEmptyCommand, ErrBadPLT, ErrPLTNotAvailable} =>
                    content = <<>>

C4_Witness ==
    \E c \in DOMAIN calls :
        /\ Returned(c) /\ calls[c].admitted /\ EventsOf(calls[c], "exec") # {}
        /\ calls[c].matchedFeature = ShellTrigger
        /\ calls[c].out.Command.Content = <<" ", ".", "s", " ", "h", "i">>

\* The command after the command filters and the trim, when no filter objects.
PostFilter(p, call) ==
    LET cf == CommandFiltersFrom(p.CommandFilters, call.input, 1, <<>>)
    IN  [passed |-> cf.err = Nil /\ TrimSpace(cf.cmd.Content) # <<>>,
         content |-> TrimSpace(cf.cmd.Content)]

\* The post-filter content starts with the PLT prefix and LintText is configured.
HasPLT(p, call) ==
    /\ PostFilter(p, call).passed
    /\ HasPrefix(PostFilter(p, call).content, PrefixCommandPLT)
    /\ LintTextPositions(p.ResultFilters) # {}

\* The groups the PLT pattern finds after the PLT prefix.
PLTParams(p, call) ==
    RegexCommandWithPLT(Drop(PostFilter(p, call).content, Len(PrefixCommandPLT)))

\* Three integers and a residual command follow the PLT prefix.
PLTWellFormed(p, call) ==
    LET params == PLTParams(p, call)
    IN  /\ Len(params) = 5
        /\ Atoi(params[2]).ok /\ Atoi(params[3]).ok /\ Atoi(params[4]).ok
        /\ params[5] # <<>>

\* C5: when the post-filter content is ".plt" followed by integers P, L, T and
\* a residual command, and LintText is configured, the feature is executed with
\* TimeoutSec = T on the residual command less its trigger, and every LintText
\* transformation of the call is the configured LintText with BeginPosition = P
\* and MaxLength = L.
C5_PLTOverrideApplied ==
    \A c \in DOMAIN calls :
        Returned(c) /\ calls[c].admitted /\ HasPLT(proc, calls[c]) /\ PLTWellFormed(proc, calls[c]) =>
            LET call == calls[c]
                params == PLTParams(proc, call)
                configured == proc.ResultFilters[Min(LintTextPositions(proc.ResultFilters))]
            IN  /\ \A i \in EventsOf(call, "exec") :
                      /\ call.trace[i].cmd.TimeoutSec = Atoi(params[4]).val
                      /\ call.matchedFeature \o call.trace[i].cmd.Content = TrimSpace(params[5])
                /\ \A i \in EventsOf(call, "rf") :
                      proc.ResultFilters[call.trace[i].idx].kind = "LintText" =>
                          call.trace[i].flt = [configured EXCEPT !.BeginPosition = Atoi(params[2]).val,
                                                                 !.MaxLength = Atoi(params[3]).val]

C5_Witness ==
    \E c \in DOMAIN calls :
        /\ Returned(c) /\ calls[c].admitted /\ HasPLT(proc, calls[c]) /\ PLTWellFormed(proc, calls[c])
        /\ EventsOf(calls[c], "exec") # {}
        /\ \E i \in EventsOf(calls[c], "rf") :
              /\ calls[c].trace[i].flt.kind = "LintText"
              /\ calls[c].trace[i].flt.BeginPosition = 1
              /\ calls[c].trace[i].flt.MaxLength = 2
        /\ ExecEvent(calls[c]).cmd.TimeoutSec = 3
        /\ calls[c].out.CombinedOutput = <<"o">>

\* The result filters of the call whose Transform returned an error.
FailedResultFilters(call) ==
    {i \in EventsOf(call, "rf") : ResultFilterTransform(call.trace[i].flt, call.trace[i].res).err # Nil}

\* C6: when the post-filter content starts with ".plt", LintText is configured,
\* and what follows is not three integers and a non-empty residual command,
\* Process returns the error BadPLT and executes no feature.
C6_BadPLTReturned ==
    \A c \in DOMAIN calls :
        Returned(c) /\ calls[c].admitted /\ HasPLT(proc, calls[c]) /\ ~PLTWellFormed(proc, calls[c]) =>
            /\ calls[c].out.Error = ErrBadPLT
            /\ EventsOf(calls[c], "exec") = {}

\* The content as FindAndRemovePrefix sees it starts with a registered trigger.
StartsWithTrigger(p, content) ==
    \E prefix \in p.Features : HasPrefix(TrimSpace(content), prefix)

\* C7: after the command filters and the PLT handling succeeded, a content that
\* starts with no registered trigger makes Process return BadPrefix and execute
\* no feature; otherwise Execute is invoked exactly once, on a feature whose
\* trigger starts the content, with the content less that trigger.
C7_TriggerLookup ==
    \A c \in DOMAIN calls :
        LET call == calls[c] IN
        /\ Returned(c) /\ call.admitted /\ PostFilter(proc, call).passed
        /\ HasPLT(proc, call) => PLTWellFormed(proc, call)
        /\ HasPrefix(PostFilter(proc, call).content, PrefixCommandPLT) => HasPLT(proc, call)
        => LET content == IF HasPLT(proc, call) THEN PLTParams(proc, call)[5]
                          ELSE PostFilter(proc, call).content
           IN  IF ~StartsWithTrigger(proc, content)
               THEN call.out.Error = ErrBadPrefix /\ EventsOf(call, "exec") = {}
               ELSE /\ Cardinality(EventsOf(call, "exec")) = 1
                    /\ ExecEvent(call).text \in proc.Features
                    /\ ExecEvent(call).text \o ExecEvent(call).cmd.Content = TrimSpace(content)

\* The error the command filter of the event at position i returned.
CommandFilterError(p, call, i) ==
    CommandFilterTransform(p.CommandFilters[call.trace[i].idx], call.trace[i].cmd).err

\* C8: the command filters are applied in declared order, each to the Command
\* its predecessor returned; the first filter that returns an error is the last
\* one applied, no feature is executed then, and the Result that is finalised
\* carries that error.
C8_CommandFiltersInOrder ==
    \A c \in DOMAIN calls :
        Returned(c) /\ calls[c].admitted =>
            LET call == calls[c]
                n == Cardinality(EventsOf(call, "cf"))
            IN  /\ EventsOf(call, "cf") = 1..n
                /\ \A i \in 1..n : call.trace[i].idx = i
                /\ n > 0 => call.trace[1].cmd = call.input
                /\ \A i \in 2..n :
                      /\ CommandFilterError(proc, call, i - 1) = Nil
                      /\ call.trace[i].cmd =
                            CommandFilterTransform(proc.CommandFilters[i - 1], call.trace[i - 1].cmd).cmd
                /\ IF n > 0 /\ CommandFilterError(proc, call, n) # Nil
                   THEN /\ EventsOf(call, "exec") = {}
                        /\ call.ret.Error = CommandFilterError(proc, call, n)
                        /\ call.filterDisapproval = CommandFilterError(proc, call, n)
                   ELSE /\ n = Len(proc.CommandFilters)
                        /\ call.filterDisapproval = Nil

C8_Witness ==
    \E c \in DOMAIN calls :
        /\ Returned(c) /\ calls[c].admitted
        /\ Len(proc.CommandFilters) = 3
        /\ Cardinality(EventsOf(calls[c], "cf")) = 2
        /\ calls[c].trace[2].cmd # calls[c].trace[1].cmd
        /\ CommandFilterError(proc, calls[c], 2) = ErrPINAndShortcutNotFound
        /\ calls[c].out.Error = ErrPINAndShortcutNotFound

\* The Result as the label result leaves it: the Command attached with the
\* logged content, the combined text reset.
Finalised(call, res) ==
    /\ res.Command.Content = call.logCommandContent
    /\ res = ResetCombinedText(res)

\* C9 as claimed: result filters are invoked only when runResultFilters is
\* set, and then each of them once, in declared order, after the feature
\* returned and on the finalised Result; when runResultFilters is not set none
\* is invoked and the CombinedOutput returned is the one ResetCombinedText set.
C9_EveryResultFilterOnce ==
    \A c \in DOMAIN calls :
        Returned(c) /\ calls[c].admitted =>
            LET call == calls[c]
                rf == EventsOf(call, "rf")
            IN  IF call.runResultFilters
                THEN /\ Cardinality(rf) = Len(proc.ResultFilters)
                     /\ \A i \in rf : \A j \in rf : i < j => call.trace[i].idx < call.trace[j].idx
                     /\ \A i \in rf : \A j \in EventsOf(call, "exec") : j < i
                     /\ \A i \in rf : call.trace[i].idx = 1 => Finalised(call, call.trace[i].res)
                ELSE rf = {} /\ Finalised(call, call.out)

\* C9 as amended: when runResultFilters is set the result filters are invoked
\* once each, in declared order, up to and including the first whose Transform
\* returns an error (all of them if none does), after the feature returned and
\* on the finalised Result; when it is not set none is invoked and the
\* CombinedOutput returned is the one ResetCombinedText set.
C9_ResultFiltersInOrder ==
    \A c \in DOMAIN calls :
        Returned(c) /\ calls[c].admitted =>
            LET call == calls[c]
                rf == EventsOf(call, "rf")
                n == Cardinality(rf)
            IN  IF call.runResultFilters
                THEN /\ {call.trace[i].idx : i \in rf} = 1..n
                     /\ \A i \in rf : \A j \in rf : i < j => call.trace[i].idx < call.trace[j].idx
                     /\ \A i \in rf : \A j \in EventsOf(call, "exec") : j < i
                     /\ \A i \in rf : call.trace[i].idx = 1 => Finalised(call, call.trace[i].res)
                     /\ \A i \in rf : call.trace[i].idx < n => i \notin FailedResultFilters(call)
                     /\ n < Len(proc.ResultFilters) =>
                           \E i \in FailedResultFilters(call) : call.trace[i].idx = n
                ELSE rf = {} /\ Finalised(call, call.out)

C9_Witness ==
    \E c \in DOMAIN calls :
        /\ Returned(c) /\ calls[c].admitted /\ calls[c].runResultFilters
        /\ Cardinality(EventsOf(calls[c], "rf")) = 4
        /\ EventsOf(calls[c], "exec") # {}
        /\ ExecEvent(calls[c]).res.Error = ErrFeature

\* The error the command filters of the call left behind, Nil if none objected.
CommandFilterPhaseError(p, call) ==
    LET n == Cardinality(EventsOf(call, "cf"))
    IN  IF n = 0 THEN Nil ELSE CommandFilterError(p, call, n)

\* C10: when the Transform of a result filter returns an error no later result
\* filter is invoked, and Process returns a Result with the Command, with the
\* error the command filters left (nil when all of them passed) and with empty
\* Output and CombinedOutput.
C10_ResultFilterError ==
    \A c \in DOMAIN calls :
        Returned(c) /\ FailedResultFilters(calls[c]) # {} =>
            LET call == calls[c]
            IN  /\ \A i \in FailedResultFilters(call) : \A j \in EventsOf(call, "rf") : j <= i
                /\ call.out.Command = call.ret.Command
                /\ call.out.Command.Content = call.logCommandContent
                /\ call.out.Error = CommandFilterPhaseError(proc, call)
                /\ PostFilter(proc, call).passed => call.out.Error = Nil
                /\ call.out.Output = <<>>
                /\ call.out.CombinedOutput = <<>>

C10_Witness ==
    \E c \in DOMAIN calls :
        /\ Returned(c) /\ FailedResultFilters(calls[c]) # {}
        /\ Len(proc.ResultFilters) = 3 /\ Cardinality(EventsOf(calls[c], "rf")) = 2
        /\ calls[c].ret.Error = ErrFeature /\ calls[c].ret.Output # <<>>
        /\ calls[c].out.Error = Nil

\* C11: an admitted call in which an error arose (a command filter objected,
\* the command was empty after the trim, the PLT was bad, no trigger matched,
\* or the feature's Result carries an error) returns that error, the first to
\* arise, in Result.Error, and never a Result whose Error is nil.
C11_ErrorsReturned ==
    \A c \in DOMAIN calls :
        Returned(c) /\ calls[c].admitted /\ calls[c].ret.Error # Nil =>
            /\ calls[c].out.Error # Nil
            /\ calls[c].out.Error = calls[c].ret.Error

\* The redaction marker as the subject of a notification mail carries it.
HiddenMailSubject ==
    OutgoingMailSubjectKeyword \o <<"-", "n", "o", "t", "i", "f", "y", "-">> \o HiddenLogContent

\* C12: when the matched trigger is the AES-decrypt or the 2FA trigger, every
\* log line of the call, from the first on, carries the redaction marker in
\* place of the content, and so do the Command of the returned Result and the
\* subject of the notification mail of the call.
C12_SensitiveContentHidden ==
    \A c \in DOMAIN calls :
        IsSensitive(calls[c].matchedFeature) =>
            /\ EventsOf(calls[c], "log") # {}
            /\ \A i \in EventsOf(calls[c], "log") : calls[c].trace[i].text = HiddenLogContent
            /\ Returned(c) => calls[c].out.Command.Content = HiddenLogContent
            /\ lastMail # NoMail => lastMail.subject = HiddenMailSubject

C12_Witness ==
    \E c \in DOMAIN calls :
        /\ Returned(c) /\ calls[c].matchedFeature = AESDecryptTrigger
        /\ ExecEvent(calls[c]).cmd.Content = <<" ", "k", "e", "y">>
        /\ Cardinality(EventsOf(calls[c], "log")) = 2
        /\ lastMail # NoMail /\ lastMail.body # <<>>

\* The 2FA trigger matched and the call returned.
C12_WitnessTwoFA ==
    \E c \in DOMAIN calls :
        /\ Returned(c) /\ calls[c].matchedFeature = TwoFATrigger
        /\ ExecEvent(calls[c]).cmd.Content = <<" ", "6">>

\* A PINAndShortcuts filter with neither a PIN nor a shortcut.
UndefinedPINAndShortcuts(flt) ==
    flt.kind = "PINAndShortcuts" /\ flt.PIN = <<>> /\ DOMAIN flt.Shortcuts = {}

\* C13: a call that reaches a PINAndShortcuts filter with an empty PIN and no
\* shortcut returns, whatever its command, the error of the undefined
\* configuration, never PINAndShortcutNotFound, and runs no feature.
C13_UndefinedPINAndShortcuts ==
    \A c \in DOMAIN calls :
        LET call == calls[c] IN
        /\ Returned(c)
        /\ \E i \in EventsOf(call, "cf") : UndefinedPINAndShortcuts(proc.CommandFilters[call.trace[i].idx])
        => /\ call.out.Error = ErrPINAndShortcutsUndefined
           /\ call.out.Error # ErrPINAndShortcutNotFound
           /\ EventsOf(call, "exec") = {}

C13_Witness ==
    \E c \in DOMAIN calls :
        /\ Returned(c) /\ calls[c].runResultFilters
        /\ Len(proc.CommandFilters) = 1
        /\ UndefinedPINAndShortcuts(proc.CommandFilters[1])
        /\ calls[c].input.Content = <<"p", "w", ".", "s", " ", "h", "i", " ">>
        /\ EventsOf(calls[c], "cf") # {}
        /\ FailedResultFilters(calls[c]) # {}

\* The line is a shortcut key, or is longer than the PIN and starts with it.
LineMatches(pin, line) ==
    \/ line \in DOMAIN pin.Shortcuts
    \/ Len(line) > Len(pin.PIN) /\ HasPrefix(line, pin.PIN)

C16_MaxCmdPerSecClamped ==
    /\ [](proc.initDone => proc.MaxCmdPerSec >= 1 /\ proc.MaxCmdPerSec <= 1000)
    /\ [][~proc.initDone /\ proc'.initDone =>
            proc'.MaxCmdPerSec = IF proc.MaxCmdPerSec >= 1 /\ proc.MaxCmdPerSec <= 1000
                                 THEN proc.MaxCmdPerSec ELSE 1000]_vars
    /\ [][proc.initDone => proc'.MaxCmdPerSec = proc.MaxCmdPerSec]_vars
    /\ [][~proc.initDone /\ ~proc'.initDone => proc'.MaxCmdPerSec = proc.MaxCmdPerSec]_vars

C16_Witness ==
    \E c \in DOMAIN calls :
        /\ Returned(c) /\ calls[c].admitted /\ callsInWindow = 2
        /\ proc.MaxCmdPerSec = 1000 /\ rateLimit.MaxCount = 1000
        /\ Len(proc.CommandFilters) = 2

\* The call is past proc.initialiseOnce().
PastInitialiseOnce(call) == call.pc \notin {"idle", "init"} \cup InsideOnce

\* C15: however concurrent first calls of Process interleave, the function of
\* initialiseOnce runs once: MaxCmdPerSec is reset and the rate limiter
\* constructed one time, no call is past initialiseOnce (so none at the
\* admission) before the limiter is there, and the limiter, once constructed,
\* stays the one every call counts on.
C15_InitialisedOnce ==
    /\ [](proc.initCount <= 1)
    /\ [](\A c \in DOMAIN calls :
            PastInitialiseOnce(calls[c]) =>
                /\ proc.initCount = 1
                /\ rateLimit.made
                /\ rateLimit.MaxCount = proc.MaxCmdPerSec)
    /\ [][rateLimit.made =>
            /\ rateLimit'.made
            /\ rateLimit'.MaxCount = rateLimit.MaxCount
            /\ rateLimit'.UnitSecs = rateLimit.UnitSecs
            /\ rateLimit'.counter >= rateLimit.counter]_vars

C15_Witness ==
    /\ calls[1].pc = "init" /\ calls[2].pc = "construct"
    /\ proc.MaxCmdPerSec = 1000 /\ ~rateLimit.made

\* Both calls were admitted by the one limiter.
C15_WitnessBothAdmitted ==
    /\ calls[1].pc = "returned" /\ calls[2].pc = "returned"
    /\ calls[1].admitted /\ calls[2].admitted
    /\ rateLimit.counter = 2 /\ proc.initCount = 1

\* The number of characters of a text: the two bytes of an encoded rune count
\* as one.
RECURSIVE RuneCount(_)
RuneCount(s) ==
    IF s = <<>> THEN 0
    ELSE IF Len(s) >= 2 /\ s[1] = "<C3>" /\ s[2] = "<A9>" THEN 1 + RuneCount(Drop(s, 2))
    ELSE 1 + RuneCount(Tail(s))

\* The positions of the filters of a kind.
FiltersOfKind(filters, kind) == {i \in 1..Len(filters) : filters[i].kind = kind}

\* C17 as claimed: IsSaneForInternet returns no error exactly when Features is
\* assigned with a trigger, CommandFilters is assigned and contains a
\* PINAndShortcuts with a PIN or shortcuts whose PIN, if any, has at least 7
\* characters, and ResultFilters is assigned and contains a LintText with
\* MaxLength within 35..4096; every error starts with "bad configuration: ".
C17_SaneExactlyWhenSomeFilter ==
    applied.fn = "IsSaneForInternet" /\ applied.done =>
        /\ applied.out = <<>> <=>
            /\ "Features" \notin proc.unassigned /\ proc.Features # {}
            /\ "CommandFilters" \notin proc.unassigned
            /\ \E i \in FiltersOfKind(proc.CommandFilters, "PINAndShortcuts") :
                  LET pin == proc.CommandFilters[i]
                  IN  /\ pin.PIN # <<>> \/ DOMAIN pin.Shortcuts # {}
                      /\ pin.PIN # <<>> => RuneCount(pin.PIN) >= 7
            /\ "ResultFilters" \notin proc.unassigned
            /\ \E i \in FiltersOfKind(proc.ResultFilters, "LintText") :
                  proc.ResultFilters[i].MaxLength >= 35 /\ proc.ResultFilters[i].MaxLength <= 4096
        /\ \A i \in 1..Len(applied.out) : HasPrefix(applied.out[i], ErrBadProcessorConfig)

\* What IsSaneForInternet does check: it returns no error exactly when
\* Features is assigned with a trigger, CommandFilters is assigned and its
\* first PINAndShortcuts has a PIN or shortcuts and a PIN, if any, of at least
\* 7 bytes, and ResultFilters is assigned and its first LintText has MaxLength
\* within 35..4096; every error starts with "bad configuration: ", and the
\* processor with nothing assigned gets errors.
SaneExactlyWhenFirstFilter ==
    applied.fn = "IsSaneForInternet" /\ applied.done =>
        /\ applied.out = <<>> <=>
            /\ "Features" \notin proc.unassigned /\ proc.Features # {}
            /\ "CommandFilters" \notin proc.unassigned
            /\ FiltersOfKind(proc.CommandFilters, "PINAndShortcuts") # {}
            /\ LET pin == proc.CommandFilters[Min(FiltersOfKind(proc.CommandFilters, "PINAndShortcuts"))]
               IN  /\ pin.PIN # <<>> \/ DOMAIN pin.Shortcuts # {}
                   /\ pin.PIN # <<>> => Len(pin.PIN) >= 7
            /\ "ResultFilters" \notin proc.unassigned
            /\ FiltersOfKind(proc.ResultFilters, "LintText") # {}
            /\ LET linter == proc.ResultFilters[Min(FiltersOfKind(proc.ResultFilters, "LintText"))]
               IN  linter.MaxLength >= 35 /\ linter.MaxLength <= 4096
        /\ \A i \in 1..Len(applied.out) : HasPrefix(applied.out[i], ErrBadProcessorConfig)
        /\ proc.unassigned = {"Features", "CommandFilters", "ResultFilters"} => applied.out # <<>>

\* A short PIN in the first PINAndShortcuts is reported, a second
\* PINAndShortcuts is not looked at.
SecondPINAndShortcutsIgnored ==
    /\ applied.fn = "IsSaneForInternet" /\ applied.done
    /\ proc.unassigned = {} /\ proc.Features # {}
    /\ Len(proc.CommandFilters) = 2
    /\ proc.CommandFilters[1].kind = "PINAndShortcuts" /\ Len(proc.CommandFilters[1].PIN) = 6
    /\ proc.CommandFilters[2].kind = "PINAndShortcuts" /\ Len(proc.CommandFilters[2].PIN) = 7
    /\ Len(proc.ResultFilters) = 1 /\ proc.ResultFilters[1].MaxLength = 4096
    /\ applied.out = <<ErrPINTooShort>>

\* IsSaneForInternet is content with a PIN of six characters in seven bytes.
SixCharacterPINAccepted ==
    /\ Len(proc.CommandFilters) = 1 /\ RuneCount(proc.CommandFilters[1].PIN) = 6
    /\ Len(proc.ResultFilters) = 1
    /\ applied.fn = "IsSaneForInternet" /\ applied.done /\ applied.out = <<>>

\* IsSaneForInternet is content with a processor of two filters each.
SaneProcessorAccepted ==
    /\ applied.fn = "IsSaneForInternet" /\ applied.done /\ applied.out = <<>>
    /\ Len(proc.CommandFilters) = 2 /\ Len(proc.ResultFilters) = 2

\* The processor with nothing assigned is told three errors.
ZeroValueProcessorInsane ==
    /\ applied.fn = "IsSaneForInternet" /\ applied.done
    /\ proc.unassigned = {"Features", "CommandFilters", "ResultFilters"}
    /\ Len(applied.out) = 3

\* C18: IsEmpty returns true exactly when the processor has no command filter
\* or one of its PINAndShortcuts filters has an empty PIN, with or without
\* shortcuts; the call leaves the processor as it is.
C18_IsEmpty ==
    /\ [](applied.fn = "IsEmpty" /\ applied.done =>
            (applied.out = TRUE <=>
                \/ "CommandFilters" \in proc.unassigned
                \/ proc.CommandFilters = <<>>
                \/ \E i \in FiltersOfKind(proc.CommandFilters, "PINAndShortcuts") :
                      proc.CommandFilters[i].PIN = <<>>))
    /\ [][applied.fn = "IsEmpty" => proc' = proc]_vars

C18_Witness ==
    /\ applied.fn = "IsEmpty" /\ applied.done /\ applied.out = TRUE
    /\ Len(proc.CommandFilters) = 2
    /\ proc.CommandFilters[1].kind = "TranslateSequences"
    /\ proc.CommandFilters[2].kind = "PINAndShortcuts"
    /\ DOMAIN proc.CommandFilters[2].Shortcuts # {}

\* C19 as claimed: for every LintText and every text, LintText.Transform
\* applied to what it returned returns the same CombinedOutput again.
C19_LintTextIdempotent ==
    applied.fn = "LintText.Transform" /\ applied.done => applied.again = applied.out

\* C19 as amended: for every LintText that cuts no leading bytes
\* (BeginPosition not above 0) and either cuts no trailing bytes (MaxLength not
\* above 0) or does not trim (TrimSpaces off), and for every text,
\* LintText.Transform applied to what it returned returns the same
\* CombinedOutput again.
C19_LintTextIdempotentUncut ==
    /\ applied.fn = "LintText.Transform" /\ applied.done
    /\ applied.flt.BeginPosition <= 0
    /\ applied.flt.MaxLength <= 0 \/ ~applied.flt.TrimSpaces
    => applied.again = applied.out

C19_Witness ==
    /\ applied.fn = "LintText.Transform" /\ applied.done
    /\ applied.flt.BeginPosition = 0 /\ applied.flt.MaxLength = 0
    /\ applied.flt.TrimSpaces /\ applied.flt.CompressToSingleLine
    /\ applied.flt.KeepVisible7BitCharOnly /\ applied.flt.CompressSpaces
    /\ applied.arg = <<"<C3>", "\n", "a">>
    /\ applied.out = <<"?", ";", "a">>
    /\ applied.again = applied.out

\* The search and replacement strings of a rule.
StringsOf(rule) == {rule[1], rule[2]}

\* The bytes of the search and replacement strings of a rule.
BytesOf(rule) == {rule[1][i] : i \in 1..Len(rule[1])} \cup {rule[2][i] : i \in 1..Len(rule[2])}

\* C20 as claimed: when no search or replacement string of one rule is a
\* search or replacement string of the other, TranslateSequences returns the
\* same content with the rules in either order.
C20_DisjointRulesCommute ==
    /\ applied.fn = "TranslateSequences.Transform" /\ applied.done
    /\ StringsOf(applied.flt.Sequences[1]) \cap StringsOf(applied.flt.Sequences[2]) = {}
    => applied.again.cmd.Content = applied.out.cmd.Content

\* C20 as amended: when no search or replacement string of the rules is empty
\* and no byte of the strings of one rule occurs in the strings of the other,
\* TranslateSequences returns the same content with the rules in either order.
C20_ByteDisjointRulesCommute ==
    /\ applied.fn = "TranslateSequences.Transform" /\ applied.done
    /\ <<>> \notin StringsOf(applied.flt.Sequences[1]) \cup StringsOf(applied.flt.Sequences[2])
    /\ BytesOf(applied.flt.Sequences[1]) \cap BytesOf(applied.flt.Sequences[2]) = {}
    => applied.again.cmd.Content = applied.out.cmd.Content

C20_Witness ==
    /\ applied.fn = "TranslateSequences.Transform" /\ applied.done
    /\ applied.flt.Sequences = << <<<<"a">>, <<"a", "a">>>>, <<<<"b", "b">>, <<"b">>>> >>
    /\ applied.arg.Content = <<"b", "b", "a">>
    /\ applied.out.cmd.Content = <<"b", "a", "a">>
    /\ applied.again.cmd.Content = <<"b", "a", "a">>

\* The text holds a graphic character: a visible ASCII character or an encoded
\* rune (the model's only one is a letter); a stray byte is no character.
RECURSIVE ContainsGraphicRune(_)
ContainsGraphicRune(s) ==
    IF s = <<>> THEN FALSE
    ELSE IF Len(s) >= 2 /\ s[1] = "<C3>" /\ s[2] = "<A9>" THEN TRUE
    ELSE IF s[1] \notin HighBytes /\ s[1] \notin ControlBytes /\ ~IsSpace(s[1]) THEN TRUE
    ELSE ContainsGraphicRune(Tail(s))

\* C21: SayEmptyOutput.Transform sets CombinedOutput to "EMPTY OUTPUT" exactly
\* when it holds no graphic Unicode character and leaves it as it is
\* otherwise; it returns no error and changes no other field of the Result.
C21_SayEmptyOutput ==
    applied.fn = "SayEmptyOutput.Transform" /\ applied.done =>
        /\ applied.out.err = Nil
        /\ applied.out.res = [applied.arg EXCEPT !.CombinedOutput =
                                 IF ContainsGraphicRune(applied.arg.CombinedOutput)
                                 THEN applied.arg.CombinedOutput ELSE EmptyOutputText]

\* The rounds of the call in which NotifyViaEmail.Transform was invoked.
NotifyEvents(call) ==
    {i \in EventsOf(call, "rf") : call.trace[i].flt.kind = "NotifyViaEmail"}

\* C22: NotifyViaEmail.Transform starts exactly one send task when the filter
\* is configured (recipients and mail client) and the error of the Result is
\* not PINAndShortcutNotFound, and none otherwise; it returns nil and leaves
\* the Result alone, so Process goes on to the next filter or returns the
\* Result; a send task that runs, delivered or failed, changes no call.
C22_NotifyViaEmail ==
    [][/\ \A c \in DOMAIN calls :
            calls[c].pc = "resultfilters" /\ calls'[c] # calls[c]
            /\ proc.ResultFilters[calls[c].rfIdx].kind = "NotifyViaEmail" =>
                /\ mailTasks' = IF proc.ResultFilters[calls[c].rfIdx].configured
                                   /\ calls[c].ret.Error # ErrPINAndShortcutNotFound
                                THEN Append(mailTasks, c) ELSE mailTasks
                /\ calls'[c].ret = calls[c].ret
                /\ IF calls[c].rfIdx = Len(proc.ResultFilters)
                   THEN calls'[c].pc = "returned" /\ calls'[c].out = calls[c].ret
                   ELSE calls'[c].pc = "resultfilters" /\ calls'[c].rfIdx = calls[c].rfIdx + 1
       /\ Len(mailTasks') < Len(mailTasks) => calls' = calls
       /\ Len(mailTasks') > Len(mailTasks) =>
            \E c \in DOMAIN calls :
                /\ calls[c].pc = "resultfilters"
                /\ proc.ResultFilters[calls[c].rfIdx].kind = "NotifyViaEmail"]_vars

\* A send task was started for a call with an error other than
\* PINAndShortcutNotFound, its delivery failed and the call returned the Result.
C22_Witness ==
    \E c \in DOMAIN calls :
        /\ Returned(c) /\ calls[c].out = calls[c].ret
        /\ calls[c].out.Error = ErrBadPrefix
        /\ NotifyEvents(calls[c]) # {}
        /\ mailTasks = <<>> /\ lastMail.failed

\* The filter is configured and starts no task: the command was not authenticated.
C22_WitnessNotFound ==
    \E c \in DOMAIN calls :
        /\ Returned(c) /\ calls[c].out.Error = ErrPINAndShortcutNotFound
        /\ \E i \in NotifyEvents(calls[c]) : calls[c].trace[i].flt.configured
        /\ mailTasks = <<>> /\ lastMail = NoMail

\* The call parsed a PLT prefix: its trimmed post-filter content starts with it.
ParsedPLT(p, call) ==
    PostFilter(p, call).passed /\ HasPrefix(PostFilter(p, call).content, PrefixCommandPLT)

C24_MailAsAtTransform ==
    [][\A i \in 1..Len(mailTasks) :
          Len(mailTasks') < Len(mailTasks) /\ mailTasks[i] \notin {mailTasks'[j] : j \in 1..Len(mailTasks')} =>
              \E k \in NotifyEvents(calls[mailTasks[i]]) :
                  /\ lastMail'.subject = NotificationMail(calls[mailTasks[i]].trace[k].res).subject
                  /\ lastMail'.body = NotificationMail(calls[mailTasks[i]].trace[k].res).body]_vars

\* The statistics hook fired once, as the last thing the call did.
StatsFiredOnceAtReturn(call) ==
    /\ Cardinality(EventsOf(call, "stats")) = 1
    /\ call.trace[Len(call.trace)].ev = "stats"

C25_WitnessRejected ==
    \E c \in DOMAIN calls :
        /\ Returned(c) /\ calls[c].admitted
        /\ calls[c].out.Error = ErrPINAndShortcutNotFound
        /\ EventsOf(calls[c], "stats") = {}

\* C26 as claimed: a call that finds the lock down flag clear takes exactly one
\* admission from the rate limiter, before any command filter runs and whatever
\* the command filters decide later; no other step of a call takes one, and a
\* call refused by the lock down check leaves the limiter alone.
C26_OneAdmissionPerCall ==
    [][\A c \in DOMAIN calls :
          calls'[c] # calls[c] =>
              IF calls[c].pc = "ratelimit"
              THEN /\ rateLimit'.counter = rateLimit.counter + 1
                   /\ EventsOf(calls[c], "cf") = {}
              ELSE /\ rateLimit'.counter = rateLimit.counter
                   /\ calls'[c].pc = "ratelimit" => calls[c].pc = "lockdown" /\ ~EmergencyLockDown
                   /\ EventsOf(calls'[c], "cf") # {} => calls[c].admitted]_vars

\* C26 amended: a call that finds the lock down flag clear asks the rate
\* limiter once, before any command filter runs; when the limiter has an
\* admission left the call takes exactly one and goes on to the command
\* filters, whatever they decide later, and otherwise it takes none and
\* returns RateLimitExceeded; no other step of a call takes one, and a call
\* refused by the lock down check leaves the limiter alone.
C26_OneRequestPerCall ==
    [][\A c \in DOMAIN calls :
          calls'[c] # calls[c] =>
              IF calls[c].pc = "ratelimit"
              THEN /\ EventsOf(calls[c], "cf") = {}
                   /\ IF rateLimit.counter < rateLimit.MaxCount
                      THEN /\ rateLimit'.counter = rateLimit.counter + 1
                           /\ calls'[c].pc = "filters" /\ calls'[c].admitted
                      ELSE /\ rateLimit'.counter = rateLimit.counter
                           /\ calls'[c].pc = "returned" /\ ~calls'[c].admitted
                           /\ calls'[c].out = ErrorResult(ErrRateLimitExceeded)
              ELSE /\ rateLimit'.counter = rateLimit.counter
                   /\ calls'[c].pc = "ratelimit" => calls[c].pc = "lockdown" /\ ~EmergencyLockDown
                   /\ EventsOf(calls'[c], "cf") # {} => calls[c].admitted]_vars

\* The second admission of a window went to a call whose command failed the
\* PIN authentication.
C26_Witness ==
    \E c \in DOMAIN calls :
        /\ Returned(c) /\ calls[c].admitted
        /\ calls[c].out.Error = ErrPINAndShortcutNotFound
        /\ rateLimit.counter = 2 /\ rateLimit.MaxCount = 2

\* The text the steps before the cuts of the filter produce from the text.
BeforeCuts(lint, text) ==
    LintTextTransform([lint EXCEPT !.BeginPosition = 0, !.MaxLength = 0], text)

\* C27: with MaxLength above 0 the text LintText.Transform leaves has at most
\* MaxLength bytes; with BeginPosition above 0 the first BeginPosition bytes of
\* the text of the earlier steps are gone, and nothing is left of a text of no
\* more than BeginPosition bytes; the cut to MaxLength is made on what the cut
\* at BeginPosition left.
C27_LintTextCuts ==
    applied.fn = "LintText.Transform" /\ applied.done =>
        LET lint == applied.flt
            pre == BeforeCuts(lint, applied.arg)
            begun == IF lint.BeginPosition > 0
                     THEN SubSeq(pre, lint.BeginPosition + 1, Len(pre)) ELSE pre
        IN  /\ lint.MaxLength > 0 => Len(applied.out) <= lint.MaxLength
            /\ lint.BeginPosition > 0 /\ Len(pre) <= lint.BeginPosition => applied.out = <<>>
            /\ applied.out = IF lint.MaxLength > 0 /\ Len(begun) > lint.MaxLength
                             THEN SubSeq(begun, 1, lint.MaxLength) ELSE begun

\* Both cuts took a byte: of the three bytes the earlier steps made of the
\* text, the second is left.
C27_Witness ==
    /\ applied.fn = "LintText.Transform" /\ applied.done
    /\ applied.flt.BeginPosition = 1 /\ applied.flt.MaxLength = 1
    /\ applied.flt.KeepVisible7BitCharOnly /\ ~applied.flt.TrimSpaces
    /\ ~applied.flt.CompressSpaces
    /\ applied.arg = <<"<C3>", "a", " ">>
    /\ applied.out = <<"a">>

\* The kinds of the chunks of a response body.
ChunkKinds(response) == {response.body[i].kind : i \in 1..Len(response.body)}

\* C28: when Process returned PINAndShortcutNotFound, the SMS hook answers
\* with the status 404 and writes no XML message with the output of the
\* command into the body, and the call callback says sorry and hangs up, and
\* speaks nothing else.
C28_TwilioConcealsEndpoint ==
    \A c \in DOMAIN calls :
        calls[c].pc = "responded" /\ calls[c].out.Error = ErrPINAndShortcutNotFound =>
            /\ calls[c].response.handler = "TwilioSMSHook" =>
                  /\ calls[c].response.status = 404
                  /\ "Message" \notin ChunkKinds(calls[c].response)
            /\ calls[c].response.handler = "TwilioCallCallback" =>
                  calls[c].response.body = <<Chunk("Say", <<"S","o","r","r","y">>), Chunk("Hangup", <<>>)>>

\* The part of the claim about the call callback.
TwilioCallCallbackHangsUp ==
    \A c \in DOMAIN calls :
        calls[c].pc = "responded" /\ calls[c].out.Error = ErrPINAndShortcutNotFound
        /\ calls[c].response.handler = "TwilioCallCallback" =>
            calls[c].response.body = <<Chunk("Say", <<"S","o","r","r","y">>), Chunk("Hangup", <<>>)>>

\* The trimmed lines of the content.
TrimmedLines(content) ==
    {TrimSpace(Split(content, <<"\n">>)[i]) : i \in 1..Len(Split(content, <<"\n">>))}

\* The line is a shortcut key of a PINAndShortcuts of the processor, or starts
\* with the PIN of one whose PIN has at least 7 characters.
LineHasCredential(p, line) ==
    \E i \in FiltersOfKind(p.CommandFilters, "PINAndShortcuts") :
        \/ line \in DOMAIN p.CommandFilters[i].Shortcuts
        \/ RuneCount(p.CommandFilters[i].PIN) >= 7 /\ HasPrefix(line, p.CommandFilters[i].PIN)

\* C29: on a processor IsSaneForInternet has nothing against, a call whose
\* command has no trimmed line that is a shortcut key or starts with a PIN of
\* at least 7 characters runs no feature.
C29_NoCredentialNoExecute ==
    \A c \in DOMAIN calls :
        /\ IsSaneForInternet(proc) = <<>>
        /\ \A line \in TrimmedLines(calls[c].input.Content) : ~LineHasCredential(proc, line)
        => EventsOf(calls[c], "exec") = {}

\* C30: a Result with the error BadPLT is linted with the BeginPosition and
\* the MaxLength of the configured LintText, never with values of the PLT
\* prefix that was rejected.
C30_BadPLTLintedAsConfigured ==
    \A c \in DOMAIN calls :
        \A i \in EventsOf(calls[c], "rf") :
            calls[c].trace[i].res.Error = ErrBadPLT /\ calls[c].trace[i].flt.kind = "LintText" =>
                /\ calls[c].trace[i].flt.BeginPosition = proc.ResultFilters[calls[c].trace[i].idx].BeginPosition
                /\ calls[c].trace[i].flt.MaxLength = proc.ResultFilters[calls[c].trace[i].idx].MaxLength

\* The same for the calls whose PLT prefix is not followed by three integers.
BadPLTWithoutIntegersLintedAsConfigured ==
    \A c \in DOMAIN calls :
        \A i \in EventsOf(calls[c], "rf") :
            /\ calls[c].trace[i].res.Error = ErrBadPLT /\ calls[c].trace[i].flt.kind = "LintText"
            /\ Len(PLTParams(proc, calls[c])) # 5
            => calls[c].trace[i].flt = proc.ResultFilters[calls[c].trace[i].idx]

\* C31: the feature a call selects is the only one the lookup could select for
\* the content: no other registered trigger starts the content the lookup
\* looked at, so the order in which the map of triggers is walked does not
\* matter.
C31_TriggerLookupDeterministic ==
    \A c \in DOMAIN calls :
        calls[c].pc = "execute" =>
            \A prefix \in proc.Features :
                HasPrefix(calls[c].matchedFeature \o calls[c].cmd.Content, prefix) =>
                    prefix = calls[c].matchedFeature

\* The same for the processors none of whose triggers starts another one.
TriggerLookupDeterministicWithoutNestedTriggers ==
    (\A t1, t2 \in proc.Features : HasPrefix(t1, t2) => t1 = t2) => C31_TriggerLookupDeterministic

\* C32: once the lock down flag is set no Execute of a feature begins, also in
\* a call that passed the lock down check before the flag was set.
C32_NoExecuteAfterLockDown ==
    [][\A c \in DOMAIN calls :
          EmergencyLockDown /\ calls[c].pc = "execute" => calls'[c] = calls[c]]_vars

\* What the check of Process gives: a call that finds the flag set at its lock
\* down check runs no feature.
NoExecuteWhenLockedDownAtCheck ==
    [][\A c \in DOMAIN calls :
          calls[c].pc = "lockdown" /\ EmergencyLockDown =>
              calls'[c] = calls[c] \/ (calls'[c].pc = "returned" /\ EventsOf(calls'[c], "exec") = {})]_vars

====
